---- MODULE Spec2Model ----
(***************************************************************************)
(* Resistance-distance visualiser: the push estimator (pushVSpJS), the     *)
(* absorbed random-walk estimator (abwalkVSpJS, abwalkVSp of               *)
(* resistance.cpp) and the worker harness (useResistanceWorker and         *)
(* resistance.worker.ts).                                                  *)
(*                                                                         *)
(* Three state machines share the module.  SpecPush steps the push loops,  *)
(* SpecWalk steps the walks, SpecHarness steps the main thread, the worker *)
(* and the two message channels between them.  SpecEstimators runs one     *)
(* call of either estimator.  SpecMetrics calls calculateErrorMetrics and  *)
(* SpecParse calls parseEdgeList (both of utils/errorMetrics.ts).  Each    *)
(* specification leaves the variables of the others at their initial value.*)
(***************************************************************************)
EXTENDS Integers, Sequences, FiniteSets, TLC

VARIABLES
    \* ---- push estimator (pushVSpJS)
    pin,        \* the call's arguments: [edges, s, t, v, rmax]
    ppc,        \* "phaseS" | "phaseT" | "done"
    rs, ps,     \* residual and settled vector of the push from s
    rt, pt,     \* residual and settled vector of the push from t
    queue,      \* the active queue (array, shift() at the front)
    inQueue,    \* the Set of queued nodes
    pushCount,  \* pushes of the current phase
    pprogress,  \* the values handed to onProgress, in order
    pout,       \* the value returned
    prun,       \* 1: the call (s,t); 2: the call with s and t swapped
    pfirst,     \* what the first call returned
    \* ---- random-walk estimator (abwalkVSpJS / abwalkVSp)
    win,        \* the call's arguments: [impl, edges, s, t, v, times, seed]
    wpc,        \* "walkS" | "walkT" | "done" | "threw"
    wi,         \* the loop index i
    wu,         \* the walk's current node u
    tau,        \* the four counters [ss, st, ts, tt]
    wsteps,     \* steps taken in this call (bounds the model only)
    wrand,      \* state of the C library generator (srand/rand)
    wprogress,  \* the values handed to onProgress, in order
    wout,       \* the value returned
    wrun,       \* 1: first invocation, 2: the repeated invocation
    wfirst,     \* counters and result of the first invocation
    \* ---- harness (useResistanceWorker + resistance.worker.ts)
    mounted,    \* workerRef.current is a live worker
    tasksRef,   \* taskId -> [onProgress: BOOLEAN] for the registered tasks
    payload,    \* sequence of the COMPUTE payloads issued; taskId = index
    toWorker,   \* messages posted to the worker, not yet handled
    toMain,     \* messages posted by the worker, not yet handled
    handler,    \* taskId -> position of its handleCompute invocation
    hung,       \* the worker thread is inside a loop that never ends
    wasmModule, \* the wasmModule singleton is set
    wasmLoadingPromise, \* "null" | "pending" | "fulfilled"
    posted,     \* taskId -> the messages the worker posted for it, in order
    delivered,  \* taskId -> the callbacks invoked for it, in order
    cancelled,  \* taskIds cancel() was called with
    cancelledFirst, \* taskIds cancelled before any terminal callback
    \* ---- calculateErrorMetrics
    ein,        \* the call's arguments: [result, groundTruth, scale]
    epc,        \* "call" | "done"
    metrics,    \* the ErrorMetrics returned: [absolute, relative]
    \* ---- parseEdgeList
    content,    \* the file: [pre, meta, body], sequences of lines
    gpc,        \* "call" | "done"
    parsed,     \* the ParsedGraph returned, or the GraphParseError thrown
    \* ---- loadWASM (resistance.worker.ts), the loads told apart
    loadedModule,   \* wasmModule: 0 (null) or k, the module load k created
    loadingPromise, \* wasmLoadingPromise: 0 (null) or k, the promise of load k
    loads,          \* per load started: "pending" | "fulfilled" | "rejected"
    calls,          \* per call of loadWASM, what it returned and what the
                    \* caller's await got
    \* ---- the results list (ParameterPanel.tsx, ResultsPanel)
    objects,        \* the result objects ever created; a reference is an index
    results,        \* the state `results`: a sequence of references
    groundTruthId,  \* the state `groundTruthId`: 0 (null) or a result id
    closure,        \* what onResult of the task in flight captured
    created,        \* results created so far
    \* ---- graph edit mode (GraphVisualizer)
    graph,          \* the prop `graph`: [nodes, edges]
    isEditMode,
    originalGraph,  \* <<>> (null) or <<graph>>
    currentEdges,
    history,        \* a sequence of edge lists (the entries' edges)
    historyIndex,   \* 0-based, -1 before the first effect
    effectDue       \* the effect on [graph, isEditMode] has yet to run

pvars == <<pin, ppc, rs, ps, rt, pt, queue, inQueue, pushCount, pprogress,
           pout, prun, pfirst>>
wvars == <<win, wpc, wi, wu, tau, wsteps, wrand, wprogress, wout, wrun, wfirst>>
hvars == <<mounted, tasksRef, payload, toWorker, toMain, handler, hung,
           wasmModule, wasmLoadingPromise, posted, delivered, cancelled,
           cancelledFirst>>
evars == <<ein, epc, metrics>>
gvars == <<content, gpc, parsed>>
lvars == <<loadedModule, loadingPromise, loads, calls>>
rvars == <<objects, results, groundTruthId, closure, created>>
dvars == <<graph, isEditMode, originalGraph, currentEdges, history,
           historyIndex, effectDue>>
avars == <<lvars, rvars, dvars>>
uvars == <<evars, gvars, avars>>
vars == <<pvars, wvars, hvars, uvars>>

-----------------------------------------------------------------------------
(* Bounds of the model. *)

\* Pushes one phase may make before the model stops following it.
MaxPushes == 16
\* Walk steps one invocation may make before the model stops following it.
MaxSteps == 5
\* COMPUTE requests one behaviour of the harness issues.
MaxTasks == 2

\* Node ids of the fixture graphs.
Nodes == 0 .. 3

-----------------------------------------------------------------------------
(* Numbers.  A double is modelled by a pair <<n, d>>: for d > 0 the exact   *)
(* rational n/d in lowest terms, and for d = 0 the IEEE specials a         *)
(* division by zero produces: <<0, 0>> is NaN, <<1, 0>> is +Infinity and   *)
(* <<-1, 0>> is -Infinity.                                                 *)

RECURSIVE GCD(_, _)
GCD(a, b) == IF b = 0 THEN a ELSE GCD(b, a % b)

Abs(x) == IF x < 0 THEN -x ELSE x

Rat(n, d) ==
    LET g == GCD(Abs(n), d) IN IF n = 0 THEN <<0, 1>> ELSE <<n \div g, d \div g>>

Zero == <<0, 1>>
One == <<1, 1>>
NaN == <<0, 0>>
PosInf == <<1, 0>>
NegInf == <<-1, 0>>

IsNum(x) == x[2] # 0

RAdd(a, b) ==
    LET g == GCD(a[2], b[2])
        l == (a[2] \div g) * b[2]
    IN  Rat(a[1] * (l \div a[2]) + b[1] * (l \div b[2]), l)

RNeg(a) == <<-a[1], a[2]>>
RSub(a, b) == RAdd(a, RNeg(b))
RDivInt(a, k) == LET g == GCD(Abs(a[1]), k) IN Rat(a[1] \div g, a[2] * (k \div g))
RMulInt(a, k) == LET g == GCD(k, a[2]) IN Rat(a[1] * (k \div g), a[2] \div g)
RGt(a, b) == a[1] * b[2] > b[1] * a[2]
RLe(a, b) == ~RGt(a, b)

\* x / k for a finite x and a count k >= 0, as IEEE 754 divides.
FDiv(x, k) ==
    IF k # 0 THEN RDivInt(x, k)
    ELSE IF x[1] = 0 THEN NaN
    ELSE IF x[1] > 0 THEN PosInf ELSE NegInf

FNeg(x) == <<-x[1], x[2]>>

FAdd(x, y) ==
    IF x = NaN \/ y = NaN THEN NaN
    ELSE IF ~IsNum(x) /\ ~IsNum(y) THEN (IF x = y THEN x ELSE NaN)
    ELSE IF ~IsNum(x) THEN x
    ELSE IF ~IsNum(y) THEN y
    ELSE RAdd(x, y)

FSub(x, y) == FAdd(x, FNeg(y))

-----------------------------------------------------------------------------
(* Graphs: graph.edges is a sequence of arcs <<source, target>>.           *)

Arc(a, b) == <<a, b>>
Und(a, b) == <<Arc(a, b), Arc(b, a)>>

\* degree[edge.source]++ over graph.edges
Degree(edges, u) == Cardinality({i \in DOMAIN edges : edges[i][1] = u})

RECURSIVE Adjacency(_, _)
\* adjacencyList[u]: the targets of u's arcs, in the order of graph.edges
Adjacency(edges, u) ==
    IF edges = <<>> THEN <<>>
    ELSE IF Head(edges)[1] = u
         THEN <<Head(edges)[2]>> \o Adjacency(Tail(edges), u)
         ELSE Adjacency(Tail(edges), u)

\* Fixture graphs on the nodes 0..3.
GPath == Und(0, 1) \o Und(1, 2) \o Und(2, 3)
GCycle == Und(0, 1) \o Und(1, 2) \o Und(2, 3) \o Und(3, 0)
GIsolated == Und(0, 1) \o Und(1, 2)
GTwoParts == Und(0, 1) \o Und(2, 3)
GLoop == Und(0, 1) \o <<Arc(1, 1)>> \o Und(1, 2) \o Und(2, 3)
GParallel == Und(0, 1) \o Und(0, 1) \o Und(1, 2) \o Und(2, 3) \o Und(0, 2)

Graphs == {GPath, GCycle, GIsolated, GTwoParts, GLoop, GParallel}

RECURSIVE ReachFrom(_, _)
\* The nodes some walk from a node of `seen` can visit.
ReachFrom(edges, seen) ==
    LET more == seen \cup {edges[i][2] : i \in {j \in DOMAIN edges : edges[j][1] \in seen}}
    IN  IF more = seen THEN seen ELSE ReachFrom(edges, more)

-----------------------------------------------------------------------------
(* The push estimator: pushVSpJS.                                          *)

\* The residual thresholds rmax the fixture calls use.
RmaxValues == {<<1, 2>>, <<1, 4>>, <<1, 8>>}

\* Smaller thresholds, for the 4-cycle (whose residuals stay dyadic).
FineRmaxValues == {<<1, 16>>, <<1, 32>>, <<1, 64>>}

PushInputs ==
    [edges : Graphs, s : Nodes, t : Nodes, v : Nodes, rmax : RmaxValues]
    \cup [edges : {GCycle}, s : Nodes, t : Nodes, v : Nodes, rmax : FineRmaxValues]

\* new Float64Array(n)
ZeroVec == [x \in Nodes |-> Zero]

\* pushCount % 100 === 0
ProgressEvery == 100

RECURSIVE PushLoopIntoLandmark(_, _, _, _, _)
\* The loop without `if (nei === v) continue`.
PushLoopIntoLandmark(in, u, nbrs, du, st) ==
    IF nbrs = <<>> THEN st
    ELSE LET nei == Head(nbrs)
             r1 == [st.r EXCEPT ![nei] = RAdd(@, RDivInt(st.r[u], du))]
             enq == nei \notin st.inQueue
                    /\ RGt(r1[nei], RMulInt(in.rmax, Degree(in.edges, nei)))
         IN  PushLoopIntoLandmark(in, u, Tail(nbrs), du,
                      [r |-> r1,
                       queue |-> IF enq THEN Append(st.queue, nei) ELSE st.queue,
                       inQueue |-> IF enq THEN st.inQueue \cup {nei} ELSE st.inQueue])

RECURSIVE PushLoop(_, _, _, _, _)
\* for (const nei of adjacencyList[u]) { ... }: st is [r, queue, inQueue].
\* r[u] is read again at every arc, as the code reads rs[u] inside the loop.
PushLoop(in, u, nbrs, du, st) ==
    IF nbrs = <<>> THEN st
    ELSE LET nei == Head(nbrs) IN
         IF nei = in.v THEN PushLoop(in, u, Tail(nbrs), du, st)
         ELSE LET r1 == [st.r EXCEPT ![nei] = RAdd(@, RDivInt(st.r[u], du))]
                  enq == nei \notin st.inQueue
                         /\ RGt(r1[nei], RMulInt(in.rmax, Degree(in.edges, nei)))
              IN  PushLoop(in, u, Tail(nbrs), du,
                           [r |-> r1,
                            queue |-> IF enq THEN Append(st.queue, nei) ELSE st.queue,
                            inQueue |-> IF enq THEN st.inQueue \cup {nei} ELSE st.inQueue])

\* The iteration with ps[u] += 2 * rs[u].
ProcessNodeSettlesTwice(in, r, p, q, inq) ==
    LET u == Head(q)
        p1 == [p EXCEPT ![u] = RAdd(@, RMulInt(r[u], 2))]
        st == PushLoop(in, u, Adjacency(in.edges, u), Degree(in.edges, u),
                       [r |-> r, queue |-> Tail(q), inQueue |-> inq \ {u}])
    IN  [r |-> [st.r EXCEPT ![u] = Zero], p |-> p1,
         queue |-> st.queue, inQueue |-> st.inQueue]

\* The iteration without `rs[u] = 0.0`.
ProcessNodeKeepsResidual(in, r, p, q, inq) ==
    LET u == Head(q)
        p1 == [p EXCEPT ![u] = RAdd(@, r[u])]
        st == PushLoop(in, u, Adjacency(in.edges, u), Degree(in.edges, u),
                       [r |-> r, queue |-> Tail(q), inQueue |-> inq \ {u}])
    IN  [r |-> st.r, p |-> p1, queue |-> st.queue, inQueue |-> st.inQueue]

\* One iteration of while (queue.length > 0): shift u, settle its residual,
\* relax its arcs, clear its residual.  Returns [r, p, queue, inQueue].
ProcessNode(in, r, p, q, inq) ==
    LET u == Head(q)
        p1 == [p EXCEPT ![u] = RAdd(@, r[u])]
        st == PushLoop(in, u, Adjacency(in.edges, u), Degree(in.edges, u),
                       [r |-> r, queue |-> Tail(q), inQueue |-> inq \ {u}])
    IN  [r |-> [st.r EXCEPT ![u] = Zero], p |-> p1,
         queue |-> st.queue, inQueue |-> st.inQueue]

\* ps[s]/degree[s] + pt[t]/degree[t] - ps[t]/degree[s] - pt[s]/degree[t]
CombineSwapped(in, sv, tv) ==
    LET ds == Degree(in.edges, in.s)
        dt == Degree(in.edges, in.t)
    IN  FSub(FSub(FAdd(FDiv(sv[in.s], ds), FDiv(tv[in.t], dt)),
                  FDiv(sv[in.t], dt)),
             FDiv(tv[in.s], dt))

CombineSignSlip(in, sv, tv) ==
    LET ds == Degree(in.edges, in.s)
        dt == Degree(in.edges, in.t)
    IN  FSub(FAdd(FAdd(FDiv(sv[in.s], ds), FDiv(tv[in.t], dt)),
                  FDiv(sv[in.t], ds)),
             FDiv(tv[in.s], dt))

Combine(in, sv, tv) ==
    LET ds == Degree(in.edges, in.s)
        dt == Degree(in.edges, in.t)
    IN  FSub(FSub(FAdd(FDiv(sv[in.s], ds), FDiv(tv[in.t], dt)),
                  FDiv(sv[in.t], ds)),
             FDiv(tv[in.s], dt))

\* The entry without `if (s !== v)`: the source is queued even at the landmark.
PushEntrySeedsLandmark(in) ==
    [rs |-> [ZeroVec EXCEPT ![in.s] = One],
     queue |-> <<in.s>>,
     inQueue |-> {in.s}]

\* The state on entry to the first while loop, for the arguments `in`.
PushEntry(in) ==
    [rs |-> [ZeroVec EXCEPT ![in.s] = One],
     queue |-> IF in.s # in.v THEN <<in.s>> ELSE <<>>,
     inQueue |-> IF in.s # in.v THEN {in.s} ELSE {}]

PushStart(in, run) ==
    /\ pin = in
    /\ ppc = "phaseS"
    /\ rs = PushEntry(in).rs
    /\ ps = ZeroVec
    /\ rt = ZeroVec
    /\ pt = ZeroVec
    /\ queue = PushEntry(in).queue
    /\ inQueue = PushEntry(in).inQueue
    /\ pushCount = 0
    /\ pprogress = <<>>
    /\ pout = NaN
    /\ prun = run
    /\ pfirst = NaN

PushInit == \E in \in PushInputs : PushStart(in, 1)

\* The push variables while another machine runs.
PushIdle == PushStart([edges |-> <<>>, s |-> 0, t |-> 0, v |-> 0, rmax |-> One], 0)

\* An iteration of the first loop (the push from s).
PushFromS ==
    /\ ppc = "phaseS"
    /\ queue # <<>>
    /\ pushCount < MaxPushes
    /\ LET st == ProcessNode(pin, rs, ps, queue, inQueue) IN
        /\ rs' = st.r
        /\ ps' = st.p
        /\ queue' = st.queue
        /\ inQueue' = st.inQueue
    /\ pushCount' = pushCount + 1
    /\ pprogress' = IF pushCount' % ProgressEvery = 0
                    THEN Append(pprogress, <<25, 1>>) ELSE pprogress
    /\ UNCHANGED <<pin, ppc, rt, pt, pout, prun, pfirst>>
    /\ UNCHANGED <<wvars, hvars, uvars>>

\* The first loop ends; rt, pt, queue, inQueue are set up for the push from t.
PushStartT ==
    /\ ppc = "phaseS"
    /\ queue = <<>>
    /\ ppc' = "phaseT"
    /\ rt' = [ZeroVec EXCEPT ![pin.t] = One]
    /\ pt' = ZeroVec
    /\ queue' = IF pin.t # pin.v THEN <<pin.t>> ELSE <<>>
    /\ inQueue' = IF pin.t # pin.v THEN {pin.t} ELSE {}
    /\ pushCount' = 0
    /\ UNCHANGED <<pin, rs, ps, pprogress, pout, prun, pfirst>>
    /\ UNCHANGED <<wvars, hvars, uvars>>

\* An iteration of the second loop (the push from t).
PushFromT ==
    /\ ppc = "phaseT"
    /\ queue # <<>>
    /\ pushCount < MaxPushes
    /\ LET st == ProcessNode(pin, rt, pt, queue, inQueue) IN
        /\ rt' = st.r
        /\ pt' = st.p
        /\ queue' = st.queue
        /\ inQueue' = st.inQueue
    /\ pushCount' = pushCount + 1
    /\ pprogress' = IF pushCount' % ProgressEvery = 0
                    THEN Append(pprogress, <<75, 1>>) ELSE pprogress
    /\ UNCHANGED <<pin, ppc, rs, ps, pout, prun, pfirst>>
    /\ UNCHANGED <<wvars, hvars, uvars>>

\* The return of an estimator that consumed graph.edges.
PushReturnEdgesConsumed ==
    /\ ppc = "phaseT"
    /\ queue = <<>>
    /\ ppc' = "done"
    /\ pout' = Combine(pin, ps, pt)
    /\ pprogress' = Append(pprogress, <<100, 1>>)
    /\ pin' = [pin EXCEPT !.edges = <<>>]
    /\ UNCHANGED <<rs, ps, rt, pt, queue, inQueue, pushCount, prun, pfirst>>
    /\ UNCHANGED <<wvars, hvars, uvars>>

\* The second loop ends: combine, onProgress(100), return.
PushReturn ==
    /\ ppc = "phaseT"
    /\ queue = <<>>
    /\ ppc' = "done"
    /\ pout' = Combine(pin, ps, pt)
    /\ pprogress' = Append(pprogress, <<100, 1>>)
    /\ UNCHANGED <<pin, rs, ps, rt, pt, queue, inQueue, pushCount, prun, pfirst>>
    /\ UNCHANGED <<wvars, hvars, uvars>>

\* The caller calls again with s and t exchanged.
PushAgainSwapped ==
    /\ ppc = "done"
    /\ prun = 1
    /\ LET in == [pin EXCEPT !.s = pin.t, !.t = pin.s] IN
        /\ pin' = in
        /\ rs' = PushEntry(in).rs
        /\ queue' = PushEntry(in).queue
        /\ inQueue' = PushEntry(in).inQueue
    /\ ppc' = "phaseS"
    /\ ps' = ZeroVec
    /\ rt' = ZeroVec
    /\ pt' = ZeroVec
    /\ pushCount' = 0
    /\ pprogress' = <<>>
    /\ pout' = NaN
    /\ prun' = 2
    /\ pfirst' = pout
    /\ UNCHANGED <<wvars, hvars, uvars>>

\* The caller calls again with the same graph and nodes and a smaller rmax.
PushAgainFiner ==
    /\ ppc = "done"
    /\ prun = 1
    /\ \E in \in PushInputs :
        /\ in = [pin EXCEPT !.rmax = in.rmax]
        /\ RGt(pin.rmax, in.rmax)
        /\ pin' = in
        /\ rs' = PushEntry(in).rs
        /\ queue' = PushEntry(in).queue
        /\ inQueue' = PushEntry(in).inQueue
    /\ ppc' = "phaseS"
    /\ ps' = ZeroVec
    /\ rt' = ZeroVec
    /\ pt' = ZeroVec
    /\ pushCount' = 0
    /\ pprogress' = <<>>
    /\ pout' = NaN
    /\ prun' = 3
    /\ pfirst' = pout
    /\ UNCHANGED <<wvars, hvars, uvars>>

PushNext ==
    \/ PushFromS
    \/ PushStartT
    \/ PushFromT
    \/ PushReturn
    \/ PushAgainSwapped
    \/ PushAgainFiner

-----------------------------------------------------------------------------
(* The random-walk estimator: abwalkVSpJS and abwalkVSp (resistance.cpp).  *)

\* The graphs, trial counts and seeds the fixture calls use.
WalkGraphs == {GPath, GIsolated, GTwoParts, GParallel}
TimesValues == {1, 2}
Seeds == {0, 3}

WalkInputs ==
    [impl : {"js"}, edges : WalkGraphs, s : Nodes, t : Nodes, v : Nodes,
     times : TimesValues, seed : {0}]
    \cup
    [impl : {"wasm"}, edges : WalkGraphs, s : Nodes, t : Nodes, v : Nodes,
     times : TimesValues, seed : Seeds]

\* wu between two walks: the for loop is at its head.
NoWalk == -1
\* wu after neighbors[idx] on an empty neighbor list (JS undefined).
Undefined == -2

\* The C library's rand(): the next generator state, a function of the
\* current one alone (a small linear congruential generator stands for it).
RandNext(x) == (5 * x + 3) % 16

\* The nodes randNeighbor(u) of abwalkVSpJS can return: Math.random() is not
\* seeded, so every index of adjacencyList[u] is possible.
JsNeighbors(edges, u) ==
    LET neighbors == Adjacency(edges, u)
    IN  IF neighbors = <<>> THEN {Undefined}
        ELSE {neighbors[idx] : idx \in 1 .. Len(neighbors)}

\* neighbors[rand() % neighbors.size()] of abwalkVSp, for a non-empty list.
CppNeighbor(edges, u, r) ==
    LET neighbors == Adjacency(edges, u)
    IN  neighbors[(r % Len(neighbors)) + 1]

ZeroTau == [ss |-> 0, st |-> 0, ts |-> 0, tt |-> 0]

\* The counters with the tests on s and t exchanged.
CountExchanged(in, pc, u, c) ==
    IF pc = "walkS"
    THEN [c EXCEPT !.ss = IF u = in.t THEN @ + 1 ELSE @,
                   !.st = IF u = in.s THEN @ + 1 ELSE @]
    ELSE [c EXCEPT !.ts = IF u = in.t THEN @ + 1 ELSE @,
                   !.tt = IF u = in.s THEN @ + 1 ELSE @]

\* if (u === s) tauss += 1; if (u === t) taust += 1 (and tauts, tautt in the
\* walks from t)
Count(in, pc, u, c) ==
    IF pc = "walkS"
    THEN [c EXCEPT !.ss = IF u = in.s THEN @ + 1 ELSE @,
                   !.st = IF u = in.t THEN @ + 1 ELSE @]
    ELSE [c EXCEPT !.ts = IF u = in.s THEN @ + 1 ELSE @,
                   !.tt = IF u = in.t THEN @ + 1 ELSE @]

\* The combination with taust added instead of subtracted.
WalkResultSignSlip(in, c) ==
    LET ds == Degree(in.edges, in.s) * in.times
        dt == Degree(in.edges, in.t) * in.times
    IN  FAdd(FSub(FAdd(FDiv(<<c.ss, 1>>, ds), FDiv(<<c.st, 1>>, dt)),
                  FDiv(<<c.ts, 1>>, ds)),
             FDiv(<<c.tt, 1>>, dt))

\* tauss/(degree[s]*times) - taust/(degree[t]*times)
\*   - tauts/(degree[s]*times) + tautt/(degree[t]*times)
WalkResult(in, c) ==
    LET ds == Degree(in.edges, in.s) * in.times
        dt == Degree(in.edges, in.t) * in.times
    IN  FAdd(FSub(FSub(FDiv(<<c.ss, 1>>, ds), FDiv(<<c.st, 1>>, dt)),
                  FDiv(<<c.ts, 1>>, ds)),
             FDiv(<<c.tt, 1>>, dt))

Max(a, b) == IF a > b THEN a ELSE b

\* The progress abwalkVSpJS reports after walk i of a phase (<<>> if none).
WalkProgress(in, pc, i) ==
    IF in.impl = "js" /\ (i + 1) % Max(1, in.times \div 20) = 0
    THEN IF pc = "walkS"
         THEN <<Rat((i + 1) * 50, in.times)>>
         ELSE <<RAdd(<<50, 1>>, Rat((i + 1) * 50, in.times))>>
    ELSE <<>>

WalkStart(in, run) ==
    /\ win = in
    /\ wpc = "walkS"
    /\ wi = 0
    /\ wu = NoWalk
    /\ tau = ZeroTau
    /\ wsteps = 0
    /\ wrand = in.seed
    /\ wprogress = <<>>
    /\ wout = NaN
    /\ wrun = run
    /\ wfirst = [tau |-> ZeroTau, out |-> NaN]

WalkInit == \E in \in WalkInputs : WalkStart(in, 1)

\* The walk variables while another machine runs.
WalkIdle ==
    WalkStart([impl |-> "js", edges |-> <<>>, s |-> 0, t |-> 0, v |-> 0,
               times |-> 0, seed |-> 0], 0)

\* let u = s (or let u = t): walk i of the phase begins.
WalkBegin ==
    /\ wpc \in {"walkS", "walkT"}
    /\ wu = NoWalk
    /\ wi < win.times
    /\ wu' = IF wpc = "walkS" THEN win.s ELSE win.t
    /\ UNCHANGED <<win, wpc, wi, tau, wsteps, wrand, wprogress, wout, wrun, wfirst>>
    /\ UNCHANGED <<pvars, hvars, uvars>>

\* One iteration of while (u !== v) in abwalkVSpJS.
WalkStepJS ==
    /\ win.impl = "js"
    /\ wpc \in {"walkS", "walkT"}
    /\ wu \notin {NoWalk, win.v}
    /\ wsteps < MaxSteps
    /\ wsteps' = wsteps + 1
    /\ IF wu = Undefined
       THEN \* adjacencyList[undefined].length throws a TypeError
            /\ wpc' = "threw"
            /\ UNCHANGED <<wu, tau>>
       ELSE /\ tau' = Count(win, wpc, wu, tau)
            /\ wu' \in JsNeighbors(win.edges, wu)
            /\ UNCHANGED wpc
    /\ UNCHANGED <<win, wi, wrand, wprogress, wout, wrun, wfirst>>
    /\ UNCHANGED <<pvars, hvars, uvars>>

\* One iteration of while (u != v) in abwalkVSp.  On an empty neighbor list
\* rand() % neighbors.size() is an integer remainder by zero; the build is
\* WebAssembly (emcc), where that instruction traps: the call throws.
WalkStepCpp ==
    /\ win.impl = "wasm"
    /\ wpc \in {"walkS", "walkT"}
    /\ wu \notin {NoWalk, win.v}
    /\ wsteps < MaxSteps
    /\ wsteps' = wsteps + 1
    /\ tau' = Count(win, wpc, wu, tau)
    /\ wrand' = RandNext(wrand)
    /\ IF Adjacency(win.edges, wu) = <<>>
       THEN /\ wpc' = "threw"
            /\ UNCHANGED wu
       ELSE /\ wu' = CppNeighbor(win.edges, wu, wrand')
            /\ UNCHANGED wpc
    /\ UNCHANGED <<win, wi, wprogress, wout, wrun, wfirst>>
    /\ UNCHANGED <<pvars, hvars, uvars>>

\* u === v: the while loop ends, progress is reported, i++.
WalkAbsorbed ==
    /\ wpc \in {"walkS", "walkT"}
    /\ wu = win.v
    /\ wprogress' = wprogress \o WalkProgress(win, wpc, wi)
    /\ wi' = wi + 1
    /\ wu' = NoWalk
    /\ UNCHANGED <<win, wpc, tau, wsteps, wrand, wout, wrun, wfirst>>
    /\ UNCHANGED <<pvars, hvars, uvars>>

\* The for loop of the walks from s ends; the walks from t begin.
WalkStartT ==
    /\ wpc = "walkS"
    /\ wu = NoWalk
    /\ wi >= win.times
    /\ wpc' = "walkT"
    /\ wi' = 0
    /\ UNCHANGED <<win, wu, tau, wsteps, wrand, wprogress, wout, wrun, wfirst>>
    /\ UNCHANGED <<pvars, hvars, uvars>>

\* The for loop of the walks from t ends: the result is computed and returned.
WalkReturn ==
    /\ wpc = "walkT"
    /\ wu = NoWalk
    /\ wi >= win.times
    /\ wpc' = "done"
    /\ wout' = WalkResult(win, tau)
    /\ UNCHANGED <<win, wi, wu, tau, wsteps, wrand, wprogress, wrun, wfirst>>
    /\ UNCHANGED <<pvars, hvars, uvars>>

\* The caller invokes the estimator again with the same arguments (and, for
\* the WASM build, the same seed: srand(seed) resets the generator).
WalkAgain ==
    /\ wpc = "done"
    /\ wrun = 1
    /\ wfirst' = [tau |-> tau, out |-> wout]
    /\ wrun' = 2
    /\ wpc' = "walkS"
    /\ wi' = 0
    /\ wu' = NoWalk
    /\ tau' = ZeroTau
    /\ wsteps' = 0
    /\ wrand' = win.seed
    /\ wprogress' = <<>>
    /\ wout' = NaN
    /\ UNCHANGED win
    /\ UNCHANGED <<pvars, hvars, uvars>>

WalkNext ==
    \/ WalkBegin
    \/ WalkStepJS
    \/ WalkStepCpp
    \/ WalkAbsorbed
    \/ WalkStartT
    \/ WalkReturn
    \/ WalkAgain

-----------------------------------------------------------------------------
(* The harness: useResistanceWorker (main thread) and resistance.worker.ts *)
(* (worker thread), joined by two FIFO message channels.                   *)
(*                                                                         *)
(* A COMPUTE payload carries what decides the worker's messages: the       *)
(* algorithm, the trial count, the pushes each phase of the push estimator *)
(* makes on the payload's graph, and how the JS estimator ends on it:      *)
(*   "ok"     it returns;                                                  *)
(*   "throw"  it throws before its first progress report (s or t is an     *)
(*            isolated node of a walk, or no node of the graph);           *)
(*   "hang"   its first loop never ends (the landmark is unreachable).     *)

TaskIds == 1 .. MaxTasks

PushAlgorithms == {"push-v-sp-js", "push-v-sp-wasm"}
WalkAlgorithms == {"abwalk-v-sp-js", "abwalk-v-sp-wasm"}
WasmAlgorithms == {"push-v-sp-wasm", "abwalk-v-sp-wasm"}

Payload(algorithm, times, pushesS, pushesT, fate, onProgress) ==
    [algorithm |-> algorithm, times |-> times, pushesS |-> pushesS,
     pushesT |-> pushesT, fate |-> fate, onProgress |-> onProgress]

\* The requests a behaviour of the harness draws from.
Payloads ==
    { Payload("push-v-sp-js", 0, 100, 0, "ok", TRUE),
      Payload("push-v-sp-js", 0, 0, 100, "ok", FALSE),
      Payload("abwalk-v-sp-js", 1, 0, 0, "ok", TRUE),
      Payload("abwalk-v-sp-js", 1, 0, 0, "hang", TRUE),
      Payload("abwalk-v-sp-js", 1, 0, 0, "throw", TRUE),
      Payload("push-v-sp-wasm", 0, 100, 0, "ok", TRUE),
      Payload("abwalk-v-sp-wasm", 2, 0, 0, "ok", TRUE),
      Payload("abwalk-v-sp-wasm", 1, 0, 0, "throw", TRUE),
      Payload("abwalk-v-sp-wasm", 1, 0, 0, "hang", TRUE),
      Payload("unknown", 0, 0, 0, "throw", TRUE) }

RECURSIVE Rep(_, _)
Rep(x, k) == IF k <= 0 THEN <<>> ELSE <<x>> \o Rep(x, k - 1)

RECURSIVE WalkProgressSeq(_, _, _)
\* The progress values of one phase of abwalkVSpJS, from walk i on.
WalkProgressSeq(times, pc, i) ==
    IF i >= times THEN <<>>
    ELSE WalkProgress([impl |-> "js", times |-> times], pc, i)
         \o WalkProgressSeq(times, pc, i + 1)

\* What pushVSpJS / abwalkVSpJS hand to onProgress on payload p, in order.
\* A phase of pushVSpJS reports 25 (then 75) after every 100th push.
JsProgress(p) ==
    IF p.algorithm \in PushAlgorithms
    THEN IF p.fate = "ok"
         THEN Rep(<<25, 1>>, p.pushesS \div ProgressEvery)
              \o Rep(<<75, 1>>, p.pushesT \div ProgressEvery) \o << <<100, 1>> >>
         ELSE IF p.fate = "hang" THEN Rep(<<25, 1>>, p.pushesS \div ProgressEvery)
         ELSE <<>>
    ELSE IF p.fate = "ok"
         THEN WalkProgressSeq(p.times, "walkS", 0) \o WalkProgressSeq(p.times, "walkT", 0)
         ELSE <<>>

Msg(type, id, val) == [type |-> type, taskId |-> id, val |-> val]

RECURSIVE ProgressMsgs(_, _)
\* self.postMessage({type: 'PROGRESS', ...}) for each value, in order
ProgressMsgs(id, values) ==
    IF values = <<>> THEN <<>>
    ELSE <<Msg("PROGRESS", id, Head(values))>> \o ProgressMsgs(id, Tail(values))

\* The terminal message handleCompute posts: RESULT after a return, ERROR
\* from the catch block, nothing while the estimator loops.
TerminalMsgs(id, end) ==
    IF end = "ok" THEN <<Msg("RESULT", id, One)>>
    ELSE IF end = "throw" THEN <<Msg("ERROR", id, NaN)>>
    ELSE <<>>

JsMessagesTerminalFirst(id, p) ==
    TerminalMsgs(id, p.fate) \o ProgressMsgs(id, JsProgress(p))

\* The messages a synchronous run of the JS estimator and the end of
\* handleCompute post for task id.
JsMessages(id, p) ==
    ProgressMsgs(id, JsProgress(p)) \o TerminalMsgs(id, p.fate)

\* Continuations of suspended handleCompute invocations that are queued as
\* microtasks: they run before the worker takes its next message.
Queued == {"loadOk", "loadFailed", "returning", "throwing"}

HarnessStart(on) ==
    /\ mounted = on
    /\ tasksRef = {}
    /\ payload = <<>>
    /\ toWorker = <<>>
    /\ toMain = <<>>
    /\ handler = [id \in TaskIds |-> "none"]
    /\ hung = FALSE
    /\ wasmModule = FALSE
    /\ wasmLoadingPromise = "null"
    /\ posted = [id \in TaskIds |-> <<>>]
    /\ delivered = [id \in TaskIds |-> <<>>]
    /\ cancelled = {}
    /\ cancelledFirst = {}

\* After the effect has run: the worker exists, no task is registered.
HarnessInit == HarnessStart(TRUE)

\* The harness variables while another machine runs.
HarnessIdle == HarnessStart(FALSE)

Post(msgs) ==
    /\ toMain' = toMain \o msgs
    /\ posted' = [id \in TaskIds |->
                    posted[id] \o SelectSeq(msgs, LAMBDA m : m.taskId = id)]

IsTerminal(e) == e.type \in {"RESULT", "ERROR"}

Terminals(log) == Len(SelectSeq(log, IsTerminal))

(* ---- main thread ---- *)

\* compute(algorithm, graph, params, callbacks): register, post COMPUTE.
Compute(p) ==
    /\ mounted
    /\ Len(payload) < MaxTasks
    /\ payload' = Append(payload, p)
    /\ tasksRef' = tasksRef \cup {Len(payload) + 1}
    /\ toWorker' = Append(toWorker, Msg("COMPUTE", Len(payload) + 1, NaN))
    /\ UNCHANGED <<mounted, toMain, handler, hung, wasmModule, wasmLoadingPromise,
                   posted, delivered, cancelled, cancelledFirst>>
    /\ UNCHANGED <<pvars, wvars, uvars>>

CancelKeepsTask(id) ==
    /\ mounted
    /\ id \in 1 .. Len(payload)
    /\ id \notin cancelled
    /\ toWorker' = Append(toWorker, Msg("CANCEL", id, NaN))
    /\ cancelled' = cancelled \cup {id}
    /\ cancelledFirst' = IF Terminals(delivered[id]) = 0
                         THEN cancelledFirst \cup {id} ELSE cancelledFirst
    /\ UNCHANGED <<mounted, tasksRef, payload, toMain, handler, hung, wasmModule,
                   wasmLoadingPromise, posted, delivered>>
    /\ UNCHANGED <<pvars, wvars, uvars>>

\* cancel(taskId): post CANCEL, forget the task.
Cancel(id) ==
    /\ mounted
    /\ id \in 1 .. Len(payload)
    /\ id \notin cancelled
    /\ toWorker' = Append(toWorker, Msg("CANCEL", id, NaN))
    /\ tasksRef' = tasksRef \ {id}
    /\ cancelled' = cancelled \cup {id}
    /\ cancelledFirst' = IF Terminals(delivered[id]) = 0
                         THEN cancelledFirst \cup {id} ELSE cancelledFirst
    /\ UNCHANGED <<mounted, payload, toMain, handler, hung, wasmModule,
                   wasmLoadingPromise, posted, delivered>>
    /\ UNCHANGED <<pvars, wvars, uvars>>

OnMessageKeepsTask ==
    /\ mounted
    /\ toMain # <<>>
    /\ LET m == Head(toMain) IN
        /\ toMain' = Tail(toMain)
        /\ IF m.taskId \notin tasksRef
           THEN UNCHANGED <<tasksRef, delivered>>
           ELSE IF IsTerminal(m)
           THEN /\ delivered' = [delivered EXCEPT ![m.taskId] = Append(@, m)]
                /\ UNCHANGED tasksRef
           ELSE /\ delivered' = IF payload[m.taskId].onProgress
                                THEN [delivered EXCEPT ![m.taskId] = Append(@, m)]
                                ELSE delivered
                /\ UNCHANGED tasksRef
    /\ UNCHANGED <<mounted, payload, toWorker, handler, hung, wasmModule,
                   wasmLoadingPromise, posted, cancelled, cancelledFirst>>
    /\ UNCHANGED <<pvars, wvars, uvars>>

\* workerRef.current.onmessage: look the task up; RESULT and ERROR call the
\* terminal callback and delete the task, PROGRESS calls onProgress if given.
OnMessage ==
    /\ mounted
    /\ toMain # <<>>
    /\ LET m == Head(toMain) IN
        /\ toMain' = Tail(toMain)
        /\ IF m.taskId \notin tasksRef
           THEN UNCHANGED <<tasksRef, delivered>>
           ELSE IF IsTerminal(m)
           THEN /\ delivered' = [delivered EXCEPT ![m.taskId] = Append(@, m)]
                /\ tasksRef' = tasksRef \ {m.taskId}
           ELSE /\ delivered' = IF payload[m.taskId].onProgress
                                THEN [delivered EXCEPT ![m.taskId] = Append(@, m)]
                                ELSE delivered
                /\ UNCHANGED tasksRef
    /\ UNCHANGED <<mounted, payload, toWorker, handler, hung, wasmModule,
                   wasmLoadingPromise, posted, cancelled, cancelledFirst>>
    /\ UNCHANGED <<pvars, wvars, uvars>>

\* workerRef.current.onerror: onError for every pending task, then clear.
OnError ==
    /\ mounted
    /\ delivered' = [id \in TaskIds |->
                       IF id \in tasksRef
                       THEN Append(delivered[id], Msg("ERROR", id, NaN))
                       ELSE delivered[id]]
    /\ tasksRef' = {}
    /\ UNCHANGED <<mounted, payload, toWorker, toMain, handler, hung, wasmModule,
                   wasmLoadingPromise, posted, cancelled, cancelledFirst>>
    /\ UNCHANGED <<pvars, wvars, uvars>>

\* The effect's cleanup: terminate the worker, clear the tasks.
Unmount ==
    /\ mounted
    /\ mounted' = FALSE
    /\ tasksRef' = {}
    /\ UNCHANGED <<payload, toWorker, toMain, handler, hung, wasmModule,
                   wasmLoadingPromise, posted, delivered, cancelled, cancelledFirst>>
    /\ UNCHANGED <<pvars, wvars, uvars>>

(* ---- worker thread ---- *)

\* No continuation of a suspended handler is queued: the worker is free to
\* take its next message.
WorkerIdle == mounted /\ ~hung /\ \A id \in TaskIds : handler[id] \notin Queued

\* self.onmessage, case 'CANCEL': logged, nothing else.
WorkerCancel ==
    /\ WorkerIdle
    /\ toWorker # <<>>
    /\ Head(toWorker).type = "CANCEL"
    /\ toWorker' = Tail(toWorker)
    /\ UNCHANGED <<mounted, tasksRef, payload, toMain, handler, hung, wasmModule,
                   wasmLoadingPromise, posted, delivered, cancelled, cancelledFirst>>
    /\ UNCHANGED <<pvars, wvars, uvars>>

\* handleCompute for 'push-v-sp-js' and 'abwalk-v-sp-js': the estimator runs
\* synchronously, posting its progress; then RESULT, or ERROR from the catch
\* block.  An estimator that never returns keeps the worker thread for good.
WorkerComputeJS ==
    /\ WorkerIdle
    /\ toWorker # <<>>
    /\ Head(toWorker).type = "COMPUTE"
    /\ LET id == Head(toWorker).taskId
           p == payload[id]
       IN  /\ p.algorithm \in {"push-v-sp-js", "abwalk-v-sp-js"}
           /\ Post(JsMessages(id, p))
           /\ hung' = (p.fate = "hang")
           /\ handler' = [handler EXCEPT ![id] = IF p.fate = "hang" THEN "running" ELSE "done"]
    /\ toWorker' = Tail(toWorker)
    /\ UNCHANGED <<mounted, tasksRef, payload, wasmModule, wasmLoadingPromise,
                   delivered, cancelled, cancelledFirst>>
    /\ UNCHANGED <<pvars, wvars, uvars>>

\* handleCompute, default branch: throw new Error('Unknown algorithm'),
\* caught, ERROR posted.
WorkerComputeUnknown ==
    /\ WorkerIdle
    /\ toWorker # <<>>
    /\ Head(toWorker).type = "COMPUTE"
    /\ LET id == Head(toWorker).taskId IN
        /\ payload[id].algorithm = "unknown"
        /\ Post(<<Msg("ERROR", id, NaN)>>)
        /\ handler' = [handler EXCEPT ![id] = "done"]
    /\ toWorker' = Tail(toWorker)
    /\ UNCHANGED <<mounted, tasksRef, payload, hung, wasmModule, wasmLoadingPromise,
                   delivered, cancelled, cancelledFirst>>
    /\ UNCHANGED <<pvars, wvars, uvars>>

\* handleCompute for the WASM algorithms up to `await loadWASM()`: the module
\* is there, or a load is in flight and is awaited, or a load is started.
WorkerComputeWASM ==
    /\ WorkerIdle
    /\ toWorker # <<>>
    /\ Head(toWorker).type = "COMPUTE"
    /\ LET id == Head(toWorker).taskId IN
        /\ payload[id].algorithm \in WasmAlgorithms
        /\ handler' = [handler EXCEPT ![id] = IF wasmModule THEN "loadOk" ELSE "awaitLoad"]
    /\ wasmLoadingPromise' = IF ~wasmModule /\ wasmLoadingPromise = "null"
                             THEN "pending" ELSE wasmLoadingPromise
    /\ toWorker' = Tail(toWorker)
    /\ UNCHANGED <<mounted, tasksRef, payload, toMain, hung, wasmModule, posted,
                   delivered, cancelled, cancelledFirst>>
    /\ UNCHANGED <<pvars, wvars, uvars>>

\* The load in flight succeeds: wasmModule is set, the awaiting handlers resume.
LoadSucceeds ==
    /\ mounted
    /\ ~hung
    /\ wasmLoadingPromise = "pending"
    /\ wasmModule' = TRUE
    /\ wasmLoadingPromise' = "fulfilled"
    /\ handler' = [id \in TaskIds |->
                     IF handler[id] = "awaitLoad" THEN "loadOk" ELSE handler[id]]
    /\ UNCHANGED <<mounted, tasksRef, payload, toWorker, toMain, hung, posted,
                   delivered, cancelled, cancelledFirst>>
    /\ UNCHANGED <<pvars, wvars, uvars>>

\* The load in flight fails: wasmLoadingPromise = null, the awaiting handlers
\* get the rejection.
LoadFails ==
    /\ mounted
    /\ ~hung
    /\ wasmLoadingPromise = "pending"
    /\ wasmLoadingPromise' = "null"
    /\ handler' = [id \in TaskIds |->
                     IF handler[id] = "awaitLoad" THEN "loadFailed" ELSE handler[id]]
    /\ UNCHANGED <<mounted, tasksRef, payload, toWorker, toMain, hung, wasmModule,
                   posted, delivered, cancelled, cancelledFirst>>
    /\ UNCHANGED <<pvars, wvars, uvars>>

\* How the WASM call can go for payload p:
\*   "return"    _pushVSp / _abwalkVSp returns a number;
\*   "hang"      its loop never ends;
\*   "failEarly" an exception before the progress message (allocation, copy);
\*   "failLate"  an exception after it (a trap inside the call, or _free).
\* On an input that makes the JS estimator throw, the C++ code's behaviour is
\* undefined (rand() % 0, out-of-range index): it may trap or go on.
WasmOutcomes(p) ==
    {"failEarly", "failLate"}
    \cup (IF p.fate = "hang" THEN {"hang"} ELSE {"return"})

\* The progress message executePushVSpWASM / executeAbwalkVSpWASM posts.
WasmProgress(id) == <<Msg("PROGRESS", id, <<50, 1>>)>>

\* The catch block of execute...WASM: the JS estimator runs in its place.
FallbackEnd(p) ==
    IF p.fate = "ok" THEN "returning"
    ELSE IF p.fate = "throw" THEN "throwing" ELSE "running"

\* execute...WASM after `await loadWASM()`.
HandlerResume(id) ==
    /\ mounted
    /\ ~hung
    /\ handler[id] \in {"loadOk", "loadFailed"}
    /\ LET p == payload[id] IN
        IF handler[id] = "loadFailed"
        THEN /\ Post(ProgressMsgs(id, JsProgress(p)))
             /\ handler' = [handler EXCEPT ![id] = FallbackEnd(p)]
             /\ hung' = (p.fate = "hang")
        ELSE \E w \in WasmOutcomes(p) :
             /\ Post((IF w = "failEarly" THEN <<>> ELSE WasmProgress(id))
                     \o (IF w \in {"failEarly", "failLate"}
                         THEN ProgressMsgs(id, JsProgress(p)) ELSE <<>>))
             /\ handler' = [handler EXCEPT ![id] =
                              IF w = "return" THEN "returning"
                              ELSE IF w = "hang" THEN "running"
                              ELSE FallbackEnd(p)]
             /\ hung' = (w = "hang" \/ (w # "return" /\ p.fate = "hang"))
    /\ UNCHANGED <<mounted, tasksRef, payload, toWorker, wasmModule,
                   wasmLoadingPromise, delivered, cancelled, cancelledFirst>>
    /\ UNCHANGED <<pvars, wvars, uvars>>

\* handleCompute after `await execute...WASM(message)`: RESULT, or ERROR from
\* the catch block.
HandlerFinish(id) ==
    /\ mounted
    /\ ~hung
    /\ handler[id] \in {"returning", "throwing"}
    /\ Post(TerminalMsgs(id, IF handler[id] = "returning" THEN "ok" ELSE "throw"))
    /\ handler' = [handler EXCEPT ![id] = "done"]
    /\ UNCHANGED <<mounted, tasksRef, payload, toWorker, hung, wasmModule,
                   wasmLoadingPromise, delivered, cancelled, cancelledFirst>>
    /\ UNCHANGED <<pvars, wvars, uvars>>

HarnessNext ==
    \/ \E p \in Payloads : Compute(p)
    \/ \E id \in TaskIds : Cancel(id)
    \/ OnMessage
    \/ OnError
    \/ Unmount
    \/ WorkerCancel
    \/ WorkerComputeJS
    \/ WorkerComputeUnknown
    \/ WorkerComputeWASM
    \/ LoadSucceeds
    \/ LoadFails
    \/ \E id \in TaskIds : HandlerResume(id)
    \/ \E id \in TaskIds : HandlerFinish(id)

-----------------------------------------------------------------------------
(* Error metrics: calculateAbsoluteError, calculateRelativeError and       *)
(* calculateErrorMetrics (utils/errorMetrics.ts).  The arguments of a call *)
(* are doubles; the model takes them as multiples of 10^(-scale): a pair   *)
(* <<n, d>> in a call of scale k stands for (n/d) * 10^(-k), so that values *)
(* on both sides of the literal 1e-10 fit in TLC's integers.  Differences  *)
(* and absolute values are in the same unit; a quotient has no unit.       *)

\* The literal 1e-10 is 10^(-EpsilonExponent).
EpsilonExponent == 10

\* Largest |n| of a finite argument.
MaxMagnitude == 12

Scales == {2, 10, 11}

MetricValues ==
    {<<n, 1>> : n \in -MaxMagnitude .. MaxMagnitude} \cup {NaN, PosInf, NegInf}

MetricInputs == [result : MetricValues, groundTruth : MetricValues, scale : Scales]

RECURSIVE Pow10(_)
Pow10(k) == IF k = 0 THEN 1 ELSE 10 * Pow10(k - 1)

\* Math.abs
MathAbs(x) == <<Abs(x[1]), x[2]>>

\* x < 1e-10 for a double x >= 0 given in units of 10^(-scale): false for NaN
\* and +Infinity; for n/d it is n * 10^EpsilonExponent < d * 10^scale.
BelowEpsilon(x, scale) ==
    /\ IsNum(x)
    /\ IF scale >= EpsilonExponent
       THEN x[1] < x[2] * Pow10(scale - EpsilonExponent)
       ELSE x[1] <= (x[2] - 1) \div Pow10(EpsilonExponent - scale)

\* x <= 1e-10, likewise.
AtMostEpsilon(x, scale) ==
    /\ IsNum(x)
    /\ IF scale >= EpsilonExponent
       THEN x[1] <= x[2] * Pow10(scale - EpsilonExponent)
       ELSE x[1] <= x[2] \div Pow10(EpsilonExponent - scale)

\* x / y for doubles x >= 0 and y >= 0, as IEEE 754 divides.
FQuot(x, y) ==
    IF x = NaN \/ y = NaN THEN NaN
    ELSE IF ~IsNum(x) THEN (IF IsNum(y) THEN x ELSE NaN)
    ELSE IF ~IsNum(y) THEN Zero
    ELSE IF y[1] = 0 THEN (IF x[1] = 0 THEN NaN ELSE PosInf)
    ELSE LET n == x[1] * y[2]
             d == x[2] * y[1]
         IN  Rat(n, d)

\* return Math.abs(result - groundTruth)
calculateAbsoluteError(result, groundTruth) == MathAbs(FSub(result, groundTruth))

\* The function with `<=` in place of `<`.
calculateRelativeErrorInclusive(result, groundTruth, scale) ==
    IF AtMostEpsilon(MathAbs(groundTruth), scale) THEN PosInf
    ELSE FQuot(MathAbs(FSub(result, groundTruth)), MathAbs(groundTruth))

\* if (Math.abs(groundTruth) < 1e-10) return Infinity;
\* return Math.abs(result - groundTruth) / Math.abs(groundTruth)
calculateRelativeError(result, groundTruth, scale) ==
    IF BelowEpsilon(MathAbs(groundTruth), scale) THEN PosInf
    ELSE FQuot(MathAbs(FSub(result, groundTruth)), MathAbs(groundTruth))

calculateErrorMetrics(in) ==
    [absolute |-> calculateAbsoluteError(in.result, in.groundTruth),
     relative |-> calculateRelativeError(in.result, in.groundTruth, in.scale)]

MetricsStart(in, pc) ==
    /\ ein = in
    /\ epc = pc
    /\ metrics = [absolute |-> NaN, relative |-> NaN]

MetricsInit == \E in \in MetricInputs : MetricsStart(in, "call")

\* The metrics variables while another machine runs.
MetricsIdle == MetricsStart([result |-> Zero, groundTruth |-> Zero, scale |-> 0], "idle")

\* calculateErrorMetrics(result, groundTruth) returns.
MetricsReturn ==
    /\ epc = "call"
    /\ epc' = "done"
    /\ metrics' = calculateErrorMetrics(ein)
    /\ UNCHANGED ein
    /\ UNCHANGED <<pvars, wvars, hvars, gvars, avars>>

MetricsNext == MetricsReturn

-----------------------------------------------------------------------------
(* The edge-list parser: parseEdgeList (utils/errorMetrics.ts).            *)
(* A line, after trim(), is a sequence of tokens (line.split(/\s+/)); the  *)
(* empty line is <<>> and a comment line is <<Comment>>.  A token is a pair *)
(* <<kind, value>>:                                                        *)
(*   "int"    a decimal integer literal, such as 12 or -3                  *)
(*   "prefix" text that begins with an integer but is not one, such as     *)
(*            1.5 or 3x: parseInt(text, 10) is the integer it begins with  *)
(*   "word"   text that begins with no integer: parseInt gives NaN         *)

Comment == <<"#", 0>>

IntTok(n) == <<"int", n>>
PrefixTok(n) == <<"prefix", n>>
WordTok == <<"word", 0>>

\* parseInt(token, 10): <<TRUE, n>> for the integer n, <<FALSE, 0>> for NaN.
parseInt(tok) == IF tok[1] = "word" THEN <<FALSE, 0>> ELSE <<TRUE, tok[2]>>

isNaN(x) == ~x[1]

\* let minNodeId = Infinity; let maxNodeId = -Infinity
NoId == -1

\* Math.min(minNodeId, source, target), Math.max(maxNodeId, source, target)
MinId(m, a, b) ==
    LET ab == IF a < b THEN a ELSE b IN
    IF m = NoId \/ ab < m THEN ab ELSE m

MaxId(m, a, b) ==
    LET ab == IF a > b THEN a ELSE b IN
    IF m = NoId \/ ab > m THEN ab ELSE m

\* The line number of a GraphParseError constructed without one.
NoLine == 0

\* throw new GraphParseError(message, lineNumber)
GraphParseError(lineNumber) ==
    [ok |-> FALSE, line |-> lineNumber, nodes |-> 0, edges |-> <<>>,
     wasOneBased |-> FALSE, originalMaxNodeId |-> 0, warnings |-> {}]

\* The locals on entry to the for loop (0 stands for the null of the two
\* declared counts, which are positive once set).
ParseEntry ==
    [edges |-> <<>>, declaredNodeCount |-> 0, declaredEdgeCount |-> 0,
     minNodeId |-> NoId, maxNodeId |-> NoId,
     firstDataLineProcessed |-> FALSE, thrown |-> NoLine]

\* The body of the for loop for one line that is neither empty nor a
\* comment; `thrown` becomes the line number when the body throws.
ParseLine(parts, lineNumber, st) ==
    LET first == parseInt(parts[1])
        second == parseInt(parts[2])
        metadata == /\ ~st.firstDataLineProcessed
                    /\ Len(parts) = 2
                    /\ ~isNaN(first) /\ ~isNaN(second)
                    /\ first[2] > 0 /\ second[2] > 0
        source == first[2]
        target == second[2]
    IN  IF metadata
        THEN [st EXCEPT !.declaredNodeCount = first[2],
                        !.declaredEdgeCount = second[2],
                        !.firstDataLineProcessed = TRUE]
        ELSE IF \/ Len(parts) # 2
                \/ isNaN(first) \/ isNaN(second)
                \/ source < 0 \/ target < 0
        THEN [st EXCEPT !.firstDataLineProcessed = TRUE, !.thrown = lineNumber]
        ELSE [st EXCEPT !.firstDataLineProcessed = TRUE,
                        !.edges = IF source # target
                                  THEN @ \o <<Arc(source, target), Arc(target, source)>>
                                  ELSE @ \o <<Arc(source, target)>>,
                        !.minNodeId = MinId(@, source, target),
                        !.maxNodeId = MaxId(@, source, target)]

RECURSIVE ParseLoop(_, _, _)
\* for (const line of lines) { lineNumber++; ... }
ParseLoop(lines, lineNumber, st) ==
    IF lineNumber > Len(lines) \/ st.thrown # NoLine THEN st
    ELSE LET line == lines[lineNumber] IN
         IF line = <<>> \/ line = <<Comment>>
         THEN ParseLoop(lines, lineNumber + 1, st)
         ELSE ParseLoop(lines, lineNumber + 1, ParseLine(line, lineNumber, st))

\* The code after the loop: base detection, conversion, node count, the two
\* warnings, the ParsedGraph.
ParseFinish(st) ==
    IF st.thrown # NoLine THEN GraphParseError(st.thrown)
    ELSE IF Len(st.edges) = 0 THEN GraphParseError(NoLine)
    ELSE LET wasOneBased == st.minNodeId = 1
             edges == IF wasOneBased
                      THEN [i \in DOMAIN st.edges |->
                              Arc(st.edges[i][1] - 1, st.edges[i][2] - 1)]
                      ELSE st.edges
             maxNodeId == IF wasOneBased THEN st.maxNodeId - 1 ELSE st.maxNodeId
             nodeCount == maxNodeId + 1
             declared == st.declaredNodeCount # 0
         IN  [ok |-> TRUE, line |-> NoLine, nodes |-> nodeCount, edges |-> edges,
              wasOneBased |-> wasOneBased,
              originalMaxNodeId |-> IF wasOneBased THEN maxNodeId + 1 ELSE maxNodeId,
              warnings |->
                  {w \in {"nodes"} : declared /\ nodeCount # st.declaredNodeCount}
                  \cup {w \in {"edges"} : declared /\ Len(edges) # st.declaredEdgeCount}]

parseEdgeList(lines) == ParseFinish(ParseLoop(lines, 1, ParseEntry))

\* Lines a file's edge part is made of.
MaxLines == 3

\* Well-formed edge lines `u v`.
SampleEdgeLines ==
    {<<IntTok(0), IntTok(1)>>, <<IntTok(1), IntTok(2)>>, <<IntTok(2), IntTok(3)>>,
     <<IntTok(2), IntTok(2)>>, <<IntTok(3), IntTok(1)>>}

\* Lines that are not `u v`: -1 2, 1 x, 1 2 3, 7, 1.5 2.
SampleBadLines ==
    {<<IntTok(-1), IntTok(2)>>, <<IntTok(1), WordTok>>,
     <<IntTok(1), IntTok(2), IntTok(3)>>, <<IntTok(7)>>,
     <<PrefixTok(1), IntTok(2)>>}

BodyLines == SampleEdgeLines \cup SampleBadLines \cup {<<>>, <<Comment>>}

\* Metadata lines `n m`: 3 3 and 4 2.
MetaLines == {<<IntTok(3), IntTok(3)>>, <<IntTok(4), IntTok(2)>>}

SeqsUpTo(S, n) == UNION {[1 .. k -> S] : k \in 1 .. n}

\* A file: comment lines, then the optional metadata line, then the edge part.
Contents ==
    [pre : {<<>>, <<<<Comment>>>>},
     meta : {<<>>} \cup {<<m>> : m \in MetaLines},
     body : SeqsUpTo(BodyLines, MaxLines)]

\* content.split('\n').map(line => line.trim())
Lines(c) == c.pre \o c.meta \o c.body

ParseStart(c, pc) ==
    /\ content = c
    /\ gpc = pc
    /\ parsed = GraphParseError(NoLine)

ParseInit == \E c \in Contents : ParseStart(c, "call")

\* The parser variables while another machine runs.
ParseIdle == ParseStart([pre |-> <<>>, meta |-> <<>>, body |-> <<>>], "idle")

\* parseEdgeList(content) returns or throws.
ParseReturn ==
    /\ gpc = "call"
    /\ gpc' = "done"
    /\ parsed' = parseEdgeList(Lines(content))
    /\ UNCHANGED content
    /\ UNCHANGED <<pvars, wvars, hvars, evars, avars>>

ParseNext == ParseReturn

-----------------------------------------------------------------------------
(* The push estimator of the WASM build: pushVSp (resistance.cpp).         *)

\* SimpleQueue(n): data empty, inQueue all false, front 0.
SimpleQueue == [data |-> <<>>, inQueue |-> [x \in Nodes |-> FALSE], front |-> 0]

\* push without `if (!inQueue[node])`.
SimpleQueuePushUnchecked(q, node) ==
    [q EXCEPT !.data = Append(@, node), !.inQueue[node] = TRUE]

\* void push(int node)
SimpleQueuePush(q, node) ==
    IF ~q.inQueue[node]
    THEN [q EXCEPT !.data = Append(@, node), !.inQueue[node] = TRUE]
    ELSE q

\* int pop(): the node returned and the queue afterwards (data is 0-based in
\* the code, 1-based here).
SimpleQueuePop(q) ==
    LET node == q.data[q.front + 1]
    IN  [node |-> node,
         queue |-> [q EXCEPT !.front = @ + 1, !.inQueue[node] = FALSE]]

\* bool empty()
SimpleQueueEmpty(q) == q.front >= Len(q.data)

\* void clear()
SimpleQueueClear(q) ==
    [q EXCEPT !.data = <<>>, !.front = 0, !.inQueue = [x \in Nodes |-> FALSE]]

RECURSIVE CppPushLoop(_, _, _, _, _)
\* for (int nei : adj[u]) { ... }: st is [r, queue].
CppPushLoop(in, u, nbrs, du, st) ==
    IF nbrs = <<>> THEN st
    ELSE LET nei == Head(nbrs) IN
         IF nei = in.v THEN CppPushLoop(in, u, Tail(nbrs), du, st)
         ELSE LET r1 == [st.r EXCEPT ![nei] = RAdd(@, RDivInt(st.r[u], du))]
              IN  CppPushLoop(in, u, Tail(nbrs), du,
                      [r |-> r1,
                       queue |-> IF RGt(r1[nei], RMulInt(in.rmax, Degree(in.edges, nei)))
                                 THEN SimpleQueuePush(st.queue, nei)
                                 ELSE st.queue])

\* One iteration of while (!queue.empty()): st is [r, p, queue, n], n the
\* number of iterations done.
CppProcessNode(in, st) ==
    LET popped == SimpleQueuePop(st.queue)
        u == popped.node
        p1 == [st.p EXCEPT ![u] = RAdd(@, st.r[u])]
        lp == CppPushLoop(in, u, Adjacency(in.edges, u), Degree(in.edges, u),
                          [r |-> st.r, queue |-> popped.queue])
    IN  [r |-> [lp.r EXCEPT ![u] = Zero], p |-> p1, queue |-> lp.queue,
         n |-> st.n + 1]

\* The state on entry to a loop whose source is src, the queue being q.
CppEntry(in, src, q) ==
    [r |-> [ZeroVec EXCEPT ![src] = One],
     p |-> ZeroVec,
     queue |-> IF src # in.v THEN SimpleQueuePush(q, src) ELSE q,
     n |-> 0]

RECURSIVE CppLoop(_, _, _)
\* The while loop, stopped after at most k iterations.
CppLoop(in, st, k) ==
    IF k = 0 \/ SimpleQueueEmpty(st.queue) THEN st
    ELSE CppLoop(in, CppProcessNode(in, st), k - 1)

\* The push from s after at most k iterations.
CppPhaseS(in, k) == CppLoop(in, CppEntry(in, in.s, SimpleQueue), k)

\* The push from t after at most k iterations: it follows the whole push
\* from s and queue.clear().
CppPhaseT(in, k) ==
    CppLoop(in, CppEntry(in, in.t,
                         SimpleQueueClear(CppPhaseS(in, MaxPushes).queue)), k)

\* double result = ps[s]/degree[s] + pt[t]/degree[t] - ps[t]/degree[s]
\*                 - pt[s]/degree[t]; return result;
pushVSp(in) ==
    LET sv == CppPhaseS(in, MaxPushes).p
        tv == CppPhaseT(in, MaxPushes).p
        ds == Degree(in.edges, in.s)
        dt == Degree(in.edges, in.t)
    IN  FSub(FSub(FAdd(FDiv(sv[in.s], ds), FDiv(tv[in.t], dt)),
                  FDiv(sv[in.t], ds)),
             FDiv(tv[in.s], dt))

-----------------------------------------------------------------------------
(* loadWASM (resistance.worker.ts): the module singleton.                  *)
(* execute...WASM awaits loadWASM(); the handlers of several COMPUTE        *)
(* messages run interleaved at their awaits, so calls of loadWASM arrive    *)
(* while a load is under way.  The body of the load up to its first await   *)
(* (logger, the URL, fetch) does not throw, so a load fails only after      *)
(* loadWASM has stored its promise.                                         *)

\* Calls of loadWASM a behaviour follows.
MaxCalls == 4

\* null
NoLoad == 0

LoaderStart ==
    /\ loadedModule = NoLoad
    /\ loadingPromise = NoLoad
    /\ loads = <<>>
    /\ calls = <<>>

\* The worker script has been evaluated.
LoaderInit == LoaderStart

\* The loader variables while another machine runs.
LoaderIdle == LoaderStart

\* What a call returned: wasmModule (of load k) or the promise of load k;
\* the caller's `await loadWASM()` has not resumed yet.
Returned(kind, k) == [kind |-> kind, load |-> k, got |-> "waiting"]

\* loadWASM() up to its return: the module if there is one, else the promise
\* in flight if there is one, else the promise of a load it starts.
LoadWASM ==
    /\ Len(calls) < MaxCalls
    /\ IF loadedModule # NoLoad
       THEN /\ calls' = Append(calls, Returned("module", loadedModule))
            /\ UNCHANGED <<loadedModule, loadingPromise, loads>>
       ELSE IF loadingPromise # NoLoad
       THEN /\ calls' = Append(calls, Returned("promise", loadingPromise))
            /\ UNCHANGED <<loadedModule, loadingPromise, loads>>
       ELSE /\ loads' = Append(loads, "pending")
            /\ loadingPromise' = Len(loads) + 1
            /\ calls' = Append(calls, Returned("promise", Len(loads) + 1))
            /\ UNCHANGED loadedModule
    /\ UNCHANGED <<pvars, wvars, hvars, evars, gvars, rvars, dvars>>

\* The catch block without `wasmLoadingPromise = null`.
LoadRejectsKeepsPromise(k) ==
    /\ k \in DOMAIN loads
    /\ loads[k] = "pending"
    /\ loads' = [loads EXCEPT ![k] = "rejected"]
    /\ UNCHANGED <<loadedModule, loadingPromise, calls>>
    /\ UNCHANGED <<pvars, wvars, hvars, evars, gvars, rvars, dvars>>

\* Load k ends in its catch block: wasmLoadingPromise = null; throw error.
LoadRejects(k) ==
    /\ k \in DOMAIN loads
    /\ loads[k] = "pending"
    /\ loads' = [loads EXCEPT ![k] = "rejected"]
    /\ loadingPromise' = NoLoad
    /\ UNCHANGED <<loadedModule, calls>>
    /\ UNCHANGED <<pvars, wvars, hvars, evars, gvars, rvars, dvars>>

\* Load k ends well: wasmModule = module; return wasmModule.
LoadResolves(k) ==
    /\ k \in DOMAIN loads
    /\ loads[k] = "pending"
    /\ loads' = [loads EXCEPT ![k] = "fulfilled"]
    /\ loadedModule' = k
    /\ UNCHANGED <<loadingPromise, calls>>
    /\ UNCHANGED <<pvars, wvars, hvars, evars, gvars, rvars, dvars>>

\* `const module = await loadWASM()` of caller i resumes: with the module,
\* or with the error of the load whose promise it got.
CallerResumes(i) ==
    /\ i \in DOMAIN calls
    /\ calls[i].got = "waiting"
    /\ calls[i].kind = "promise" => loads[calls[i].load] # "pending"
    /\ calls' = [calls EXCEPT ![i].got =
                    IF calls[i].kind = "module" \/ loads[calls[i].load] = "fulfilled"
                    THEN "module" ELSE "error"]
    /\ UNCHANGED <<loadedModule, loadingPromise, loads>>
    /\ UNCHANGED <<pvars, wvars, hvars, evars, gvars, rvars, dvars>>

LoaderNext ==
    \/ LoadWASM
    \/ \E i \in 1 .. MaxCalls : CallerResumes(i)
    \/ \E k \in 1 .. MaxCalls : LoadResolves(k)
    \/ \E k \in 1 .. MaxCalls : LoadRejects(k)

-----------------------------------------------------------------------------
(* The results list: handleCompute of ParameterPanel.tsx and the handlers  *)
(* of ResultsPanel.  `results` and `groundTruthId` are state of the parent, *)
(* handed down as props with their setters; a handler sees the values of    *)
(* the render it was created in.  The callbacks of a task are the ones      *)
(* handed to compute() when it was started.  A result object is shared by   *)
(* every array that holds a reference to it.                                *)

\* Results a behaviour creates, and result objects it allocates.
MaxResults == 3
MaxObjects == 6

\* groundTruthId = null; metrics = null
NoResult == 0

\* No task in flight.
NoTask == [live |-> FALSE, results |-> <<>>, groundTruthId |-> NoResult]

ResultsStart ==
    /\ objects = <<>>
    /\ results = <<>>
    /\ groundTruthId = NoResult
    /\ closure = NoTask
    /\ created = 0

\* The panels after mounting.
ResultsInit == ResultsStart

\* The results variables while another machine runs.
ResultsIdle == ResultsStart

\* list.findIndex(r => r.id === id), 1-based; 0 for -1.
FindIndex(list, id) ==
    IF \E i \in DOMAIN list : objects[list[i]].id = id
    THEN CHOOSE i \in DOMAIN list :
            /\ objects[list[i]].id = id
            /\ \A j \in 1 .. i - 1 : objects[list[j]].id # id
    ELSE 0

\* The ids a button of ResultsPanel can pass: those of the results shown.
Shown == {objects[results[i]].id : i \in DOMAIN results}

\* handleCompute: compute() is handed an onResult that holds the `results`
\* and `groundTruthId` of this render.  (The button is disabled while
\* isComputing.)
HandleCompute ==
    /\ ~closure.live
    /\ created < MaxResults
    /\ closure' = [live |-> TRUE, results |-> results,
                   groundTruthId |-> groundTruthId]
    /\ UNCHANGED <<objects, results, groundTruthId, created>>
    /\ UNCHANGED <<pvars, wvars, hvars, evars, gvars, lvars, dvars>>

\* onResult of the task in flight: the ground truth is looked up in the
\* captured list by the captured id, the captured results are copied
\* (collapsed unless pinned), and setResults gets the copies and the new
\* result.  metrics records the ground truth the error was computed against.
OnResult ==
    /\ closure.live
    /\ Len(objects) + Len(closure.results) + 1 <= MaxObjects
    /\ LET n == Len(objects)
           found == FindIndex(closure.results, closure.groundTruthId) # 0
           updatedResults ==
               [i \in DOMAIN closure.results |->
                   [objects[closure.results[i]] EXCEPT
                       !.isCollapsed = IF objects[closure.results[i]].isPinned
                                       THEN @ ELSE TRUE]]
           newResult == [id |-> created + 1,
                         metrics |-> IF found THEN closure.groundTruthId
                                     ELSE NoResult,
                         isCollapsed |-> FALSE,
                         isPinned |-> FALSE]
       IN  /\ objects' = objects \o updatedResults \o <<newResult>>
           /\ results' = [i \in 1 .. Len(closure.results) + 1 |-> n + i]
    /\ created' = created + 1
    /\ closure' = NoTask
    /\ UNCHANGED groundTruthId
    /\ UNCHANGED <<pvars, wvars, hvars, evars, gvars, lvars, dvars>>

\* onError, or handleStop: the task ends without a result.
TaskEnds ==
    /\ closure.live
    /\ closure' = NoTask
    /\ UNCHANGED <<objects, results, groundTruthId, created>>
    /\ UNCHANGED <<pvars, wvars, hvars, evars, gvars, lvars, dvars>>

\* handleSetGroundTruth(id): clears the selection if id is selected; else
\* selects id, pins and expands the target object in place and moves it to
\* the top of a new array.
HandleSetGroundTruth(id) ==
    /\ id \in Shown
    /\ IF groundTruthId = id
       THEN /\ groundTruthId' = NoResult
            /\ UNCHANGED <<objects, results>>
       ELSE LET targetIndex == FindIndex(results, id)
                target == results[targetIndex]
            IN  /\ groundTruthId' = id
                /\ objects' = [objects EXCEPT ![target].isPinned = TRUE,
                                              ![target].isCollapsed = FALSE]
                /\ results' = <<target>>
                              \o SubSeq(results, 1, targetIndex - 1)
                              \o SubSeq(results, targetIndex + 1, Len(results))
    /\ UNCHANGED <<closure, created>>
    /\ UNCHANGED <<pvars, wvars, hvars, evars, gvars, lvars, dvars>>

\* handleDeleteResult(id)
HandleDeleteResult(id) ==
    /\ id \in Shown
    /\ results' = SelectSeq(results, LAMBDA r : objects[r].id # id)
    /\ groundTruthId' = IF groundTruthId = id THEN NoResult ELSE groundTruthId
    /\ UNCHANGED <<objects, closure, created>>
    /\ UNCHANGED <<pvars, wvars, hvars, evars, gvars, lvars, dvars>>

\* handleTogglePin(id): a new array with a new object in place of the target.
HandleTogglePin(id) ==
    /\ id \in Shown
    /\ Len(objects) < MaxObjects
    /\ LET i == FindIndex(results, id)
       IN  /\ objects' = Append(objects, [objects[results[i]] EXCEPT
                                             !.isPinned = ~@])
           /\ results' = [results EXCEPT ![i] = Len(objects) + 1]
    /\ UNCHANGED <<groundTruthId, closure, created>>
    /\ UNCHANGED <<pvars, wvars, hvars, evars, gvars, lvars, dvars>>

\* handleToggleCollapse(id): likewise.
HandleToggleCollapse(id) ==
    /\ id \in Shown
    /\ Len(objects) < MaxObjects
    /\ LET i == FindIndex(results, id)
       IN  /\ objects' = Append(objects, [objects[results[i]] EXCEPT
                                             !.isCollapsed = ~@])
           /\ results' = [results EXCEPT ![i] = Len(objects) + 1]
    /\ UNCHANGED <<groundTruthId, closure, created>>
    /\ UNCHANGED <<pvars, wvars, hvars, evars, gvars, lvars, dvars>>

\* handleClearResults: keeps the ground truth only.  (The button is disabled
\* while isComputing.)
HandleClearResults ==
    /\ ~closure.live
    /\ results # <<>>
    /\ results' = SelectSeq(results, LAMBDA r : objects[r].id = groundTruthId)
    /\ UNCHANGED <<objects, groundTruthId, closure, created>>
    /\ UNCHANGED <<pvars, wvars, hvars, evars, gvars, lvars, dvars>>

ResultsNext ==
    \/ HandleCompute
    \/ OnResult
    \/ TaskEnds
    \/ \E id \in 1 .. MaxResults : HandleSetGroundTruth(id)
    \/ \E id \in 1 .. MaxResults : HandleDeleteResult(id)
    \/ \E id \in 1 .. MaxResults : HandleTogglePin(id)
    \/ \E id \in 1 .. MaxResults : HandleToggleCollapse(id)
    \/ HandleClearResults

-----------------------------------------------------------------------------
(* Graph edit mode: GraphVisualizer.  The handlers of the cytoscape taps  *)
(* are registered by an effect that runs again whenever currentEdges is a   *)
(* new array, and every handler that sets history or historyIndex sets      *)
(* currentEdges to a new array too, so deleteEdge and addEdge always see    *)
(* the current history and historyIndex.                                    *)

\* Entries the history may hold before the model stops following edits.
MaxHistory == 4

\* The nodes of the graphs edited.
EditNodes == 0 .. 2

\* The graphs handed to the visualizer: [nodes, edges]; the last one has an
\* arc to a node outside 0 .. nodes - 1.
EditGraphs ==
    { [nodes |-> 3, edges |-> <<>>],
      [nodes |-> 3, edges |-> Und(0, 1)],
      [nodes |-> 3, edges |-> Und(0, 1) \o Und(1, 2)],
      [nodes |-> 3, edges |-> Und(0, 1) \o <<Arc(1, 3)>>] }

\* graph.edges.filter(e => e.source >= 0 && e.source < graph.nodes && ...)
ValidEdges(g) ==
    SelectSeq(g.edges, LAMBDA e : /\ e[1] >= 0 /\ e[1] < g.nodes
                                  /\ e[2] >= 0 /\ e[2] < g.nodes)

\* (e.source === source && e.target === target) ||
\* (e.source === target && e.target === source)
Joins(e, source, target) ==
    \/ e[1] = source /\ e[2] = target
    \/ e[1] = target /\ e[2] = source

EditStart(g, due) ==
    /\ graph = g
    /\ isEditMode = FALSE
    /\ originalGraph = <<>>
    /\ currentEdges = <<>>
    /\ history = <<>>
    /\ historyIndex = -1
    /\ effectDue = due

\* The component after its first render: the effects have yet to run.
EditInit == \E g \in EditGraphs : EditStart(g, TRUE)

\* The edit variables while another machine runs.
EditIdle == EditStart([nodes |-> 0, edges |-> <<>>], FALSE)

\* The effect on [graph, isEditMode]: outside edit mode currentEdges and the
\* history are set from the graph.
InitializeEdges ==
    /\ effectDue
    /\ effectDue' = FALSE
    /\ IF ~isEditMode
       THEN /\ currentEdges' = ValidEdges(graph)
            /\ history' = <<ValidEdges(graph)>>
            /\ historyIndex' = 0
       ELSE UNCHANGED <<currentEdges, history, historyIndex>>
    /\ UNCHANGED <<graph, isEditMode, originalGraph>>
    /\ UNCHANGED <<pvars, wvars, hvars, evars, gvars, lvars, rvars>>

\* handleEnterEditMode
HandleEnterEditMode ==
    /\ ~effectDue
    /\ ~isEditMode
    /\ originalGraph' = <<graph>>
    /\ currentEdges' = ValidEdges(graph)
    /\ history' = <<ValidEdges(graph)>>
    /\ historyIndex' = 0
    /\ isEditMode' = TRUE
    /\ effectDue' = TRUE
    /\ UNCHANGED graph
    /\ UNCHANGED <<pvars, wvars, hvars, evars, gvars, lvars, rvars>>

\* handleSave: the parent gets the edited graph and hands it back as `graph`.
HandleSave ==
    /\ ~effectDue
    /\ isEditMode
    /\ originalGraph # <<>>
    /\ graph' = [originalGraph[1] EXCEPT !.edges = currentEdges]
    /\ isEditMode' = FALSE
    /\ originalGraph' = <<>>
    /\ effectDue' = TRUE
    /\ UNCHANGED <<currentEdges, history, historyIndex>>
    /\ UNCHANGED <<pvars, wvars, hvars, evars, gvars, lvars, rvars>>

\* handleCancel
HandleCancel ==
    /\ ~effectDue
    /\ isEditMode
    /\ originalGraph # <<>>
    /\ currentEdges' = originalGraph[1].edges
    /\ isEditMode' = FALSE
    /\ originalGraph' = <<>>
    /\ effectDue' = TRUE
    /\ UNCHANGED <<graph, history, historyIndex>>
    /\ UNCHANGED <<pvars, wvars, hvars, evars, gvars, lvars, rvars>>

\* addToHistory without history.slice(0, historyIndex + 1).
addToHistoryKeepsRedo(edges) ==
    /\ history' = Append(history, edges)
    /\ historyIndex' = Len(history') - 1

\* addToHistory(edges)
addToHistory(edges) ==
    /\ history' = Append(SubSeq(history, 1, historyIndex + 1), edges)
    /\ historyIndex' = Len(history') - 1

\* handleUndo
HandleUndo ==
    /\ ~effectDue
    /\ isEditMode
    /\ IF historyIndex > 0
       THEN /\ historyIndex' = historyIndex - 1
            /\ currentEdges' = history[historyIndex' + 1]
       ELSE UNCHANGED <<historyIndex, currentEdges>>
    /\ UNCHANGED <<graph, isEditMode, originalGraph, history, effectDue>>
    /\ UNCHANGED <<pvars, wvars, hvars, evars, gvars, lvars, rvars>>

\* handleRedo
HandleRedo ==
    /\ ~effectDue
    /\ isEditMode
    /\ IF historyIndex < Len(history) - 1
       THEN /\ historyIndex' = historyIndex + 1
            /\ currentEdges' = history[historyIndex' + 1]
       ELSE UNCHANGED <<historyIndex, currentEdges>>
    /\ UNCHANGED <<graph, isEditMode, originalGraph, history, effectDue>>
    /\ UNCHANGED <<pvars, wvars, hvars, evars, gvars, lvars, rvars>>

\* deleteEdge(source, target), called for a tap on an edge shown.
deleteEdge(source, target) ==
    /\ ~effectDue
    /\ isEditMode
    /\ Len(history) < MaxHistory
    /\ \E i \in DOMAIN currentEdges :
          currentEdges[i] = Arc(source, target)
    /\ LET newEdges == SelectSeq(currentEdges,
                                 LAMBDA e : ~Joins(e, source, target))
       IN  /\ currentEdges' = newEdges
           /\ addToHistory(newEdges)
    /\ UNCHANGED <<graph, isEditMode, originalGraph, effectDue>>
    /\ UNCHANGED <<pvars, wvars, hvars, evars, gvars, lvars, rvars>>

\* addEdge(source, target), called for a tap on a second node.
addEdge(source, target) ==
    /\ ~effectDue
    /\ isEditMode
    /\ Len(history) < MaxHistory
    /\ LET exists == \E i \in DOMAIN currentEdges :
                        Joins(currentEdges[i], source, target)
           newEdges == currentEdges \o Und(source, target)
       IN  IF ~exists /\ source # target
           THEN /\ currentEdges' = newEdges
                /\ addToHistory(newEdges)
           ELSE UNCHANGED <<currentEdges, history, historyIndex>>
    /\ UNCHANGED <<graph, isEditMode, originalGraph, effectDue>>
    /\ UNCHANGED <<pvars, wvars, hvars, evars, gvars, lvars, rvars>>

EditNext ==
    \/ InitializeEdges
    \/ HandleEnterEditMode
    \/ HandleSave
    \/ HandleCancel
    \/ HandleUndo
    \/ HandleRedo
    \/ \E source, target \in EditNodes : deleteEdge(source, target)
    \/ \E source, target \in EditNodes : addEdge(source, target)

-----------------------------------------------------------------------------
(* The specifications. *)

\* The machines of the application that are not running.
AppIdle == LoaderIdle /\ ResultsIdle /\ EditIdle

\* pushVSpJS is called; nothing else runs.
InitPush ==
    PushInit /\ WalkIdle /\ HarnessIdle /\ MetricsIdle /\ ParseIdle /\ AppIdle

SpecPush == InitPush /\ [][PushNext]_vars

\* abwalkVSp is called; nothing else runs.
InitWalk ==
    PushIdle /\ WalkInit /\ HarnessIdle /\ MetricsIdle /\ ParseIdle /\ AppIdle

SpecWalk == InitWalk /\ [][WalkNext]_vars

\* The hook is mounted with its worker; no estimator is called directly.
InitHarness ==
    PushIdle /\ WalkIdle /\ HarnessInit /\ MetricsIdle /\ ParseIdle /\ AppIdle

SpecHarness == InitHarness /\ [][HarnessNext]_vars

\* One of the two estimators is called (the machine whose run number is 0
\* is not running).
InitEstimators ==
    /\ \/ PushInit /\ WalkIdle
       \/ PushIdle /\ WalkInit
    /\ HarnessIdle /\ MetricsIdle /\ ParseIdle /\ AppIdle

EstimatorsNext ==
    \/ prun # 0 /\ PushNext
    \/ wrun # 0 /\ WalkNext

SpecEstimators == InitEstimators /\ [][EstimatorsNext]_vars

\* calculateErrorMetrics is called; nothing else runs.
InitMetrics ==
    PushIdle /\ WalkIdle /\ HarnessIdle /\ MetricsInit /\ ParseIdle /\ AppIdle

SpecMetrics == InitMetrics /\ [][MetricsNext]_vars

\* parseEdgeList is called; nothing else runs.
InitParse ==
    PushIdle /\ WalkIdle /\ HarnessIdle /\ MetricsIdle /\ ParseInit /\ AppIdle

SpecParse == InitParse /\ [][ParseNext]_vars

\* The worker's handlers call loadWASM; nothing else runs.
InitLoader ==
    /\ PushIdle /\ WalkIdle /\ HarnessIdle /\ MetricsIdle /\ ParseIdle
    /\ LoaderInit /\ ResultsIdle /\ EditIdle

SpecLoader == InitLoader /\ [][LoaderNext]_vars

\* The panels are mounted with an empty results list; nothing else runs.
InitResults ==
    /\ PushIdle /\ WalkIdle /\ HarnessIdle /\ MetricsIdle /\ ParseIdle
    /\ LoaderIdle /\ ResultsInit /\ EditIdle

SpecResults == InitResults /\ [][ResultsNext]_vars

\* The visualizer is mounted with a graph; nothing else runs.
InitEdit ==
    /\ PushIdle /\ WalkIdle /\ HarnessIdle /\ MetricsIdle /\ ParseIdle
    /\ LoaderIdle /\ ResultsIdle /\ EditInit

SpecEdit == InitEdit /\ [][EditNext]_vars

-----------------------------------------------------------------------------
(* Properties of the harness (SpecHarness). *)

\* The messages of task id in a channel or log, in order.
MsgsOf(id, q) == SelectSeq(q, LAMBDA m : m.taskId = id)

ProgressOf(log) == SelectSeq(log, LAMBDA m : m.type = "PROGRESS")

IsSuffix(a, b) ==
    /\ Len(a) <= Len(b)
    /\ SubSeq(b, Len(b) - Len(a) + 1, Len(b)) = a

\* A terminal entry is the last entry of the log.
TerminalLast(log) == \A i \in DOMAIN log : IsTerminal(log[i]) => i = Len(log)

\* C1: for every taskId the callbacks receive at most one terminal outcome
\* (onResult or onError, never both, never twice); a task cancelled before
\* its terminal outcome receives none; and once the worker's terminal message
\* of a task that was never cancelled has been handled, the task has
\* received exactly one.
C1_ExactlyOneTerminal ==
    \A id \in TaskIds :
        /\ Terminals(delivered[id]) <= 1
        /\ id \in cancelledFirst => Terminals(delivered[id]) = 0
        /\ ( /\ mounted
             /\ handler[id] = "done"
             /\ id \notin cancelled
             /\ MsgsOf(id, toMain) = <<>> )
           => Terminals(delivered[id]) = 1

\* C1 witness: a task got onError from the worker's onerror event, and the
\* RESULT the worker posted for it afterwards was handled and dropped.
C1_Witness ==
    \E id \in TaskIds :
        /\ Terminals(delivered[id]) = 1
        /\ delivered[id][Len(delivered[id])].type = "ERROR"
        /\ posted[id] # <<>>
        /\ posted[id][Len(posted[id])].type = "RESULT"
        /\ MsgsOf(id, toMain) = <<>>
        /\ id \notin cancelled

\* C2: once cancel(taskId) has been called, no callback (onProgress,
\* onResult, onError) is invoked for that taskId by any later step.
C2_NothingAfterCancel ==
    [][\A id \in cancelled : delivered'[id] = delivered[id]]_vars

\* C2 witness: a task was cancelled before anything was delivered for it; the
\* worker took the CANCEL, still ran the task to its end and posted progress
\* and a terminal message, and the main thread has dropped them all.
C2_Witness ==
    \E id \in cancelledFirst :
        /\ payload[id].onProgress
        /\ handler[id] = "done"
        /\ Len(posted[id]) >= 2
        /\ MsgsOf(id, toMain) = <<>>
        /\ delivered[id] = <<>>
        /\ \A i \in DOMAIN toWorker : toWorker[i].taskId # id

\* C3: the progress values delivered for a taskId are non-decreasing and lie
\* in [0, 100].
C3_ProgressMonotone ==
    \A id \in TaskIds :
        LET pr == ProgressOf(delivered[id]) IN
        /\ \A i \in DOMAIN pr : RLe(Zero, pr[i].val) /\ RLe(pr[i].val, <<100, 1>>)
        /\ \A i, j \in DOMAIN pr : i < j => RLe(pr[i].val, pr[j].val)

\* C4: for every task, the worker posts every PROGRESS message before the
\* task's RESULT or ERROR message, the channel keeps that order, and no
\* progress callback is invoked after the task's terminal callback.
C4_ProgressBeforeTerminal ==
    \A id \in TaskIds :
        /\ TerminalLast(posted[id])
        /\ IsSuffix(MsgsOf(id, toMain), posted[id])
        /\ TerminalLast(delivered[id])

\* C4 witness: two handlers interleaved at their await points: in the
\* channel a message of another task lies between a task's PROGRESS message
\* and its terminal message.
C4_Witness ==
    \E i, j, k \in DOMAIN toMain :
        /\ i < j /\ j < k
        /\ toMain[i].type = "PROGRESS"
        /\ toMain[j].taskId # toMain[i].taskId
        /\ toMain[k].taskId = toMain[i].taskId
        /\ IsTerminal(toMain[k])

\* C5: no task that was submitted and not cancelled is left without a way to
\* its terminal outcome: while the hook is mounted, a registered task's
\* terminal message is in the channel or the worker is still able to run.
C5_NoTaskStranded ==
    mounted =>
        \A id \in tasksRef :
            \/ ~hung
            \/ \E i \in DOMAIN toMain : toMain[i].taskId = id /\ IsTerminal(toMain[i])

-----------------------------------------------------------------------------
(* Properties of the push estimator (SpecPush). *)

PushReturned == ppc = "done"

C7_Symmetric ==
    (PushReturned /\ prun = 2) => pout = pfirst

\* C7 witness: both calls returned, for endpoints of different degree and a
\* result that is a number other than 0.
C7_Witness ==
    /\ PushReturned
    /\ prun = 2
    /\ pin.s # pin.t
    /\ Degree(pin.edges, pin.s) # Degree(pin.edges, pin.t)
    /\ pushCount > 1
    /\ IsNum(pout)
    /\ pout # Zero
    /\ pout = pfirst

\* C8: when degree(s) = 0 or degree(t) = 0 the estimator fails with a domain
\* error: it does not return a value (NaN, an infinity or a number).
C8_DomainError ==
    (Degree(pin.edges, pin.s) = 0 \/ Degree(pin.edges, pin.t) = 0) => ~PushReturned

-----------------------------------------------------------------------------
(* Properties of the random-walk estimator (SpecWalk). *)

\* C9: every walk in progress has a way to end.  The loop's only exit is
\* u = v (the code counts no steps and has no cap), so the landmark has to
\* be reachable from the walk's current node.
C9_WalkCanEnd ==
    (wpc \in {"walkS", "walkT"} /\ wu \in Nodes) =>
        win.v \in ReachFrom(win.edges, {wu})

\* C10: two invocations with the same graph, s, t, v, times and seed end
\* with the same four counters and the same result.
C10_Deterministic ==
    (wpc = "done" /\ wrun = 2) => (tau = wfirst.tau /\ wout = wfirst.out)

-----------------------------------------------------------------------------
(* Properties of the push phases' queue and landmark (SpecPush). *)

InPushPhase == ppc \in {"phaseS", "phaseT"}

\* The nodes in a queue.
QueueNodes(q) == {q[i] : i \in DOMAIN q}

\* The residual and settled vectors of the phase under way.
PhaseR == IF ppc = "phaseS" THEN rs ELSE rt
PhaseP == IF ppc = "phaseS" THEN ps ELSE pt

\* C19: in each push phase the queue is FIFO with at-most-once membership:
\* after every iteration of a phase's loop no node is in the queue twice and
\* inQueue is the set of queued nodes; the iteration processes the head and
\* leaves the rest of the queue in order, new nodes going to the back; and the
\* node being processed is not enqueued again by its own iteration, that is,
\* before its residual is cleared (nodes with a self-loop included).
C19_QueueDiscipline ==
    [][(InPushPhase /\ ppc' = ppc /\ queue # <<>>) =>
          /\ \A i, j \in DOMAIN queue' : queue'[i] = queue'[j] => i = j
          /\ inQueue' = QueueNodes(queue')
          /\ Len(queue') >= Len(queue) - 1
          /\ SubSeq(queue', 1, Len(queue) - 1) = Tail(queue)
          /\ Head(queue) \notin QueueNodes(queue')]_vars

\* C20: in every state of a push phase the landmark v is not in the queue,
\* its residual is what the phase's set-up gave it (no push has added to it),
\* and its settled value is 0.
C20_LandmarkExcluded ==
    InPushPhase =>
        /\ pin.v \notin QueueNodes(queue)
        /\ pin.v \notin inQueue
        /\ PhaseR[pin.v] = (IF pin.v = (IF ppc = "phaseS" THEN pin.s ELSE pin.t)
                            THEN One ELSE Zero)
        /\ ps[pin.v] = Zero
        /\ pt[pin.v] = Zero

\* C20 witness: a phase that started away from the landmark has processed a
\* neighbour of the landmark (a node with an arc into v has settled mass).
C20_Witness ==
    /\ InPushPhase
    /\ pushCount > 1
    /\ pin.v # (IF ppc = "phaseS" THEN pin.s ELSE pin.t)
    /\ \E i \in DOMAIN pin.edges :
          /\ pin.edges[i][2] = pin.v
          /\ pin.edges[i][1] # pin.v
          /\ PhaseP[pin.edges[i][1]] # Zero

-----------------------------------------------------------------------------
(* Accuracy of the push estimator on the fixture graphs (SpecPush). *)

\* |x| of a finite x.
RAbs(x) == IF x[1] < 0 THEN RNeg(x) ELSE x

\* Circular distance of two nodes of the 4-cycle.
CycleDistance(a, b) == IF (a - b) % 4 = 3 THEN 1 ELSE (a - b) % 4

\* The exact resistance distance of the 4-cycle, d(n-d)/n for n = 4.
CycleResistance(a, b) == Rat(CycleDistance(a, b) * (4 - CycleDistance(a, b)), 4)

\* A call on the 4-cycle with landmark 2 and adjacent s, t has returned.
CycleCaseReturned ==
    /\ PushReturned
    /\ pin.edges = GCycle
    /\ pin.v = 2
    /\ CycleDistance(pin.s, pin.t) = 1

\* C17: on the 4-cycle with landmark v = 2 and adjacent s, t the result is
\* within 12 * rmax of the exact value 3/4, for every rmax of the model.
C17_CycleAccuracy ==
    CycleCaseReturned =>
        /\ IsNum(pout)
        /\ RLe(RAbs(RSub(pout, <<3, 4>>)), RMulInt(pin.rmax, 12))

\* C17 witness: such a call returned for an rmax whose bound 12 * rmax is
\* below 3/4, after more than one push in its second phase.
C17_Witness ==
    /\ CycleCaseReturned
    /\ RGt(<<3, 4>>, RMulInt(pin.rmax, 12))
    /\ pushCount > 1
    /\ IsNum(pout)

\* The exact resistance distance of the path 0-1-2-3 (unit resistors in series).
PathResistance(a, b) == <<Abs(a - b), 1>>

\* The exact reference value of a call on a fixture graph.
FixtureResistance(in) ==
    IF in.edges = GCycle THEN CycleResistance(in.s, in.t)
    ELSE PathResistance(in.s, in.t)

\* C18: accuracy is monotone in rmax on the fixture graphs (the 4-cycle and
\* the path 0-1-2-3, whose exact resistances are known): a call with a
\* smaller rmax deviates from the exact value no more than the call with the
\* larger rmax did.
C18_MonotoneAccuracy ==
    (/\ PushReturned
     /\ prun = 3
     /\ pin.edges \in {GCycle, GPath}
     /\ IsNum(pout)
     /\ IsNum(pfirst)) =>
        RLe(RAbs(RSub(pout, FixtureResistance(pin))),
            RAbs(RSub(pfirst, FixtureResistance(pin))))

-----------------------------------------------------------------------------
(* Properties of calculateErrorMetrics (SpecMetrics). *)

MetricsReturned == epc = "done"

\* Both arguments of the call are finite numbers.
FiniteArguments == IsNum(ein.result) /\ IsNum(ein.groundTruth)

\* |groundTruth| < 1e-10 for a finite groundTruth of g units of 10^(-scale),
\* g an integer: for scale < 10 only g = 0 is that small, for scale >= 10 it
\* is |g| < 10^(scale - 10).
GroundTruthNearZero ==
    IF ein.scale < 10 THEN ein.groundTruth[1] = 0
    ELSE Abs(ein.groundTruth[1]) < Pow10(ein.scale - 10)

\* C11: for finite arguments, absolute is |result - groundTruth|; relative is
\* +Infinity exactly when |groundTruth| < 1e-10 (also when result equals
\* groundTruth), and otherwise relative * |groundTruth| = absolute.  For any
\* result, |groundTruth| < 1e-10 gives relative = +Infinity without dividing;
\* otherwise the quotient is the IEEE one: NaN for a groundTruth that is NaN
\* or infinite, and |result| (NaN or +Infinity) for a result that is.
C11_ErrorMetrics ==
    MetricsReturned =>
        /\ FiniteArguments =>
             LET r == ein.result[1]
                 g == ein.groundTruth[1]
             IN  /\ metrics.absolute = <<Abs(r - g), 1>>
                 /\ (metrics.relative = PosInf) <=> GroundTruthNearZero
                 /\ ~GroundTruthNearZero =>
                        /\ IsNum(metrics.relative)
                        /\ metrics.relative[1] * Abs(g) = Abs(r - g) * metrics.relative[2]
        /\ (IsNum(ein.groundTruth) /\ GroundTruthNearZero) => metrics.relative = PosInf
        /\ ~IsNum(ein.groundTruth) => metrics.relative = NaN
        /\ (IsNum(ein.groundTruth) /\ ~GroundTruthNearZero /\ ~IsNum(ein.result)) =>
             /\ metrics.absolute = MathAbs(ein.result)
             /\ metrics.relative = MathAbs(ein.result)

\* C11 witness: groundTruth is not 0 but below 1e-10, result equals
\* groundTruth: absolute is 0 and relative is +Infinity.
C11_Witness ==
    /\ MetricsReturned
    /\ FiniteArguments
    /\ ein.groundTruth # Zero
    /\ GroundTruthNearZero
    /\ ein.result = ein.groundTruth
    /\ metrics = [absolute |-> Zero, relative |-> PosInf]

-----------------------------------------------------------------------------
(* Properties of parseEdgeList (SpecParse).  What a file's lines mean is   *)
(* read off the file itself: the edge lines are the lines `u v` of its     *)
(* edge part, whether or not a metadata line precedes them.                *)

ParseReturned == gpc = "done"

IsSkippedLine(l) == l = <<>> \/ l = <<Comment>>

\* `u v` with two non-negative integer literals.
IsEdgeLine(l) ==
    /\ Len(l) = 2
    /\ l[1][1] = "int" /\ l[2][1] = "int"
    /\ l[1][2] >= 0 /\ l[2][2] >= 0

\* A line with a token count other than two, a token that is not an integer,
\* or a negative id.
IsMalformedLine(l) == ~IsSkippedLine(l) /\ ~IsEdgeLine(l)

EdgeLines(c) == SelectSeq(c.body, IsEdgeLine)

WellFormed(c) == \A i \in DOMAIN c.body : ~IsMalformedLine(c.body[i])

RECURSIVE ArcsOf(_, _)
\* The arcs of a sequence of edge lines, ids lowered by k: both directions
\* for u # v, one arc for u = v, in line order.
ArcsOf(ls, k) ==
    IF ls = <<>> THEN <<>>
    ELSE LET u == Head(ls)[1][2] - k
             v == Head(ls)[2][2] - k
         IN  (IF u # v THEN <<Arc(u, v), Arc(v, u)>> ELSE <<Arc(u, v)>>)
             \o ArcsOf(Tail(ls), k)

\* The ids on a sequence of edge lines.
IdsOf(ls) == UNION {{ls[i][1][2], ls[i][2][2]} : i \in DOMAIN ls}

SetMin(S) == CHOOSE x \in S : \A y \in S : x <= y
SetMax(S) == CHOOSE x \in S : \A y \in S : x >= y

\* C12: every edge line becomes arcs of the result, two opposite arcs for
\* u # v and one for u = v, in line order; the arc list has 2 * (non-loop
\* lines) + (self-loop lines) entries; no edge line is dropped.
C12_EveryEdgeLineParsed ==
    (ParseReturned /\ WellFormed(content) /\ EdgeLines(content) # <<>>) =>
        /\ parsed.ok
        /\ \E k \in {0, 1} : parsed.edges = ArcsOf(EdgeLines(content), k)
        /\ Len(parsed.edges) =
              2 * Len(SelectSeq(EdgeLines(content), LAMBDA l : l[1][2] # l[2][2]))
              + Len(SelectSeq(EdgeLines(content), LAMBDA l : l[1][2] = l[2][2]))

\* C13: ids are taken as 1-based exactly when the minimum id over all edge
\* lines is 1; then every arc endpoint is an id of an edge line lowered by
\* one, otherwise it is such an id unchanged; the node count is the largest
\* resulting id plus one and every endpoint lies in 0 .. nodes - 1.
C13_BaseDetection ==
    (ParseReturned /\ WellFormed(content) /\ parsed.ok) =>
        LET ids == IdsOf(EdgeLines(content))
            k == IF SetMin(ids) = 1 THEN 1 ELSE 0
            ends == UNION {{parsed.edges[i][1], parsed.edges[i][2]} :
                             i \in DOMAIN parsed.edges}
        IN  /\ parsed.wasOneBased = (SetMin(ids) = 1)
            /\ \A i \in DOMAIN parsed.edges :
                  \E j \in DOMAIN EdgeLines(content) :
                      LET u == EdgeLines(content)[j][1][2] - k
                          v == EdgeLines(content)[j][2][2] - k
                      IN  parsed.edges[i] \in {Arc(u, v), Arc(v, u)}
            /\ parsed.nodes = SetMax(ends) + 1
            /\ ends \subseteq 0 .. parsed.nodes - 1

\* The number of the first malformed line of a file (0 if there is none).
FirstMalformed(ls) ==
    IF \E i \in DOMAIN ls : IsMalformedLine(ls[i])
    THEN SetMin({i \in DOMAIN ls : IsMalformedLine(ls[i])})
    ELSE 0

\* C14: a file with a malformed line makes parseEdgeList throw a
\* GraphParseError that carries the 1-based number of that line; no graph is
\* returned.
C14_MalformedLineIsFatal ==
    (ParseReturned /\ FirstMalformed(Lines(content)) # 0) =>
        /\ ~parsed.ok
        /\ parsed.line = FirstMalformed(Lines(content))

\* The graph of a result, or the fact that parsing failed.
GraphOf(res) ==
    [failed |-> ~res.ok, nodes |-> res.nodes, edges |-> res.edges]

\* C15: the metadata line is informational only: the outcome (node count and
\* arc list, or failure) of a file with a metadata line is the outcome of
\* the file without that line, and of the file with any other metadata line.
C15_MetadataIsInformational ==
    (ParseReturned /\ WellFormed(content) /\ content.meta # <<>>) =>
        /\ GraphOf(parsed) = GraphOf(parseEdgeList(content.pre \o content.body))
        /\ \A m \in MetaLines :
              GraphOf(parsed) = GraphOf(parseEdgeList(content.pre \o <<m>> \o content.body))

-----------------------------------------------------------------------------
(* The estimators and their graph argument (SpecEstimators). *)

\* C16: no step of an estimator, its return or throw included, changes the
\* graph it was given: the list graph.edges (length, order, source and
\* target of every arc) stays as it is, for pushVSpJS and for both builds of
\* the walk estimator.
C16_GraphUnchanged ==
    [][pin'.edges = pin.edges /\ win'.edges = win.edges]_vars

\* C16 witness: a push call on a graph with arcs has returned after pushing
\* in both phases.
C16_Witness ==
    /\ PushReturned
    /\ prun = 1
    /\ pin.edges # <<>>
    /\ pushCount > 1
    /\ ps[pin.s] # Zero

-----------------------------------------------------------------------------
(* A push phase whose source is the landmark (SpecPush). *)

\* C21: when the source of a push phase is the landmark (s = v in the first
\* phase, t = v in the second) the phase starts with an empty queue and does
\* no push, its settled vector is all zero from then on, and the call goes
\* on to return a result: the first loop's exit is taken at once, and a call
\* whose two sources are the landmark has a number or NaN as result, never an
\* error.
C21_SourceAtLandmark ==
    /\ (ppc = "phaseS" /\ pin.s = pin.v) =>
          (queue = <<>> /\ inQueue = {} /\ pushCount = 0 /\ ps = ZeroVec)
    /\ (ppc = "phaseT" /\ pin.t = pin.v) =>
          (queue = <<>> /\ inQueue = {} /\ pushCount = 0 /\ pt = ZeroVec)
    /\ (ppc \in {"phaseT", "done"} /\ pin.s = pin.v) => ps = ZeroVec
    /\ (ppc = "done" /\ pin.t = pin.v) => (pt = ZeroVec /\ pushCount = 0)
    /\ (ppc = "done" /\ pin.v \in {pin.s, pin.t}) => pout = Combine(pin, ps, pt)
    /\ (ppc = "done" /\ pin.s = pin.v /\ Degree(pin.edges, pin.s) > 0
                     /\ Degree(pin.edges, pin.t) > 0) => IsNum(pout)

\* C21 witness: a call with s = v and t away from v has returned a number
\* after pushes in its second phase only.
C21_Witness ==
    /\ ppc = "done"
    /\ pin.s = pin.v
    /\ pin.t # pin.v
    /\ ps = ZeroVec
    /\ pt # ZeroVec
    /\ pushCount > 1
    /\ IsNum(pout)

-----------------------------------------------------------------------------
(* What one iteration of a push loop moves (SpecPush). *)

\* The number of arcs from u to w.
ArcCount(edges, u, w) ==
    Cardinality({i \in DOMAIN edges : edges[i] = Arc(u, w)})

\* C22: an iteration that processes the dequeued node u holding residual x
\* adds x to the settled value of u, adds x / degree(u) to the residual of w
\* once for every arc (u, w) with w # v (w # u here; the residual of u itself
\* is 0 afterwards), and leaves every other entry alone; for every adjacency
\* shape, parallel edges and a self-loop at u included.
C22_PushAmounts ==
    [][(InPushPhase /\ ppc' = ppc /\ queue # <<>>) =>
          LET u == Head(queue)
              x == PhaseR[u]
              share == RDivInt(x, Degree(pin.edges, u))
          IN  /\ PhaseP' = [PhaseP EXCEPT ![u] = RAdd(@, x)]
              /\ PhaseR'[u] = Zero
              /\ \A w \in Nodes \ {u} :
                    PhaseR'[w] =
                        IF w = pin.v \/ ArcCount(pin.edges, u, w) = 0
                        THEN PhaseR[w]
                        ELSE RAdd(PhaseR[w],
                                  RMulInt(share, ArcCount(pin.edges, u, w)))]_vars

-----------------------------------------------------------------------------
(* Termination of the push phases (SpecPush). *)

\* The source of the phase under way.
PhaseSource == IF ppc = "phaseS" THEN pin.s ELSE pin.t

\* C24: for every rmax > 0, graph and s, t, v each push phase terminates (its
\* queue is eventually empty).  An iteration of a phase is a function of the
\* residual vector, the queue and inQueue alone (the settled vector is only
\* written), so a phase that terminates is never again, after an iteration,
\* in the configuration it started in: source queued alone, holding residual
\* 1, every other residual 0.
C24_PhaseTerminates ==
    ~(/\ InPushPhase
      /\ pushCount > 0
      /\ queue = <<PhaseSource>>
      /\ inQueue = {PhaseSource}
      /\ PhaseR = [ZeroVec EXCEPT ![PhaseSource] = One])

-----------------------------------------------------------------------------
(* Conservation of residual mass in a push phase (SpecPush). *)

RECURSIVE SumTo(_, _)
\* vec[0] + ... + vec[k]
SumTo(vec, k) == IF k < 0 THEN Zero ELSE RAdd(SumTo(vec, k - 1), vec[k])

\* The total residual of a vector over the nodes.
Total(vec) == SumTo(vec, 3)

NonNegative(vec) == \A w \in Nodes : RLe(Zero, vec[w])

\* C25: in every state of a push phase every residual is >= 0 and the
\* residuals sum to at most 1; from one processed node to the next the sum of
\* the residuals does not increase; and no settled value ever decreases during
\* a call.
C25_MassBounded ==
    [][/\ InPushPhase => (NonNegative(PhaseR) /\ RLe(Total(PhaseR), One))
       /\ InPushPhase' => (NonNegative(PhaseR') /\ RLe(Total(PhaseR'), One))
       /\ (InPushPhase /\ ppc' = ppc) => RLe(Total(PhaseR'), Total(PhaseR))
       /\ (prun' = prun) => \A w \in Nodes : /\ RLe(ps[w], ps'[w])
                                             /\ RLe(pt[w], pt'[w])]_vars

\* C25 witness: after several iterations of a phase part of the mass has
\* been absorbed at the landmark and part is still residual, with nodes
\* queued.
C25_Witness ==
    /\ InPushPhase
    /\ pushCount > 2
    /\ queue # <<>>
    /\ RGt(One, Total(PhaseR))
    /\ RGt(Total(PhaseR), Zero)
    /\ RGt(Total(PhaseP), One)

-----------------------------------------------------------------------------
(* pushVSpJS against pushVSp of resistance.cpp (SpecPush). *)

\* The nodes of a SimpleQueue still to be popped, front first.
Pending(q) == SubSeq(q.data, q.front + 1, Len(q.data))

\* The state of the C++ loop that corresponds to the JS phase under way,
\* after as many iterations as the JS loop has made.
CppPhase == IF ppc = "phaseS" THEN CppPhaseS(pin, pushCount)
                              ELSE CppPhaseT(pin, pushCount)

\* C27: the JS push (array queue and Set) and the C++ push (SimpleQueue with
\* its boolean in-queue array) are equivalent: after the same number of
\* iterations of a phase both have the same nodes waiting in the same order
\* (so they dequeue the same sequence of nodes), the same in-queue marks and
\* the same residual and settled vectors, one loop ends exactly when the
\* other does, and the call returns the same result.
C27_JsCppEquivalent ==
    /\ InPushPhase =>
          /\ CppPhase.n = pushCount
          /\ Pending(CppPhase.queue) = queue
          /\ {x \in Nodes : CppPhase.queue.inQueue[x]} = inQueue
          /\ SimpleQueueEmpty(CppPhase.queue) <=> (queue = <<>>)
          /\ CppPhase.r = PhaseR
          /\ CppPhase.p = PhaseP
    /\ ppc \in {"phaseT", "done"} =>
          /\ SimpleQueueEmpty(CppPhaseS(pin, MaxPushes).queue)
          /\ CppPhaseS(pin, MaxPushes).r = rs
          /\ CppPhaseS(pin, MaxPushes).p = ps
    /\ ppc = "done" =>
          /\ SimpleQueueEmpty(CppPhaseT(pin, MaxPushes).queue)
          /\ CppPhaseT(pin, MaxPushes).n = pushCount
          /\ CppPhaseT(pin, MaxPushes).r = rt
          /\ CppPhaseT(pin, MaxPushes).p = pt
          /\ pushVSp(pin) = pout

\* C27 witness: in a phase both queues hold at least two nodes after several
\* iterations, the SimpleQueue keeping the popped nodes in data before front,
\* and a node already waiting has a residual above its threshold (the case in
\* which the membership test, made at different places in the two versions,
\* decides).
C27_Witness ==
    /\ InPushPhase
    /\ pushCount >= 2
    /\ Len(queue) >= 2
    /\ CppPhase.queue.front = pushCount
    /\ Len(CppPhase.queue.data) > Len(queue)
    /\ \E w \in inQueue :
          /\ w # Head(queue)
          /\ w \in QueueNodes(Adjacency(pin.edges, Head(queue)))
          /\ RGt(PhaseR[w], RMulInt(pin.rmax, Degree(pin.edges, w)))

-----------------------------------------------------------------------------
(* The hit counters of the random-walk estimator (SpecWalk). *)

\* 1 if the condition holds, else 0.
Hit(cond) == IF cond THEN 1 ELSE 0

\* A walk is at a node other than the landmark: the node is being visited.
Visiting == wpc \in {"walkS", "walkT"} /\ wu \in Nodes \ {win.v}

\* C23: for every sequence of neighbor choices the counters count visits:
\* every node u visited before absorption, the start node included, adds 1
\* to tauss if u = s and 1 to taust if u = t in a walk from s (to tauts and
\* tautt in a walk from t) and nothing else; the landmark is never counted;
\* and a walk that starts at v makes no step and no increment.
C23_CountersAreVisits ==
    [][/\ Visiting =>
            /\ wsteps' = wsteps + 1
            /\ tau'.ss = tau.ss + Hit(wpc = "walkS" /\ wu = win.s)
            /\ tau'.st = tau.st + Hit(wpc = "walkS" /\ wu = win.t)
            /\ tau'.ts = tau.ts + Hit(wpc = "walkT" /\ wu = win.s)
            /\ tau'.tt = tau.tt + Hit(wpc = "walkT" /\ wu = win.t)
       /\ (~Visiting /\ wrun' = wrun) => tau' = tau
       /\ (wpc \in {"walkS", "walkT"} /\ wu = win.v) =>
            (wu' = NoWalk /\ wi' = wi + 1 /\ wsteps' = wsteps)
      ]_vars

\* C23 witness: a call with s # t has returned after a walk from s that came
\* back to s and passed t, and a walk from t.
C23_Witness ==
    /\ wpc = "done"
    /\ win.s # win.t
    /\ tau.ss >= 2
    /\ tau.st >= 1
    /\ tau.tt >= 1

-----------------------------------------------------------------------------
(* The random-walk estimator for s = t (SpecWalk). *)

\* C26: for s = t with degree(s) > 0 and times > 0 the counters satisfy
\* tauss = taust and tauts = tautt at every step, whatever neighbors are
\* chosen, and a call whose walks all terminate returns exactly 0.
C26_WalkSelfDistanceZero ==
    (win.s = win.t /\ Degree(win.edges, win.s) > 0 /\ win.times > 0) =>
        /\ tau.ss = tau.st
        /\ tau.ts = tau.tt
        /\ wpc = "done" => wout = Zero

\* C26 witness: such a call has returned 0 after walks that visited s more
\* than once.
C26_Witness ==
    /\ wpc = "done"
    /\ win.s = win.t
    /\ Degree(win.edges, win.s) > 0
    /\ win.times > 0
    /\ tau.ss >= 2
    /\ tau.tt >= 1
    /\ wout = Zero

-----------------------------------------------------------------------------
(* loadWASM as a load-once singleton (SpecLoader). *)

\* The loads in flight.
InFlight == {k \in DOMAIN loads : loads[k] = "pending"}

\* A call of loadWASM is made in this step.
Called == Len(calls') = Len(calls) + 1

\* C28: loadWASM is a load-once singleton under concurrency: at most one load
\* is in flight at any time; a call that arrives during a load gets that
\* load's promise and starts none, and its await gets that load's module (or
\* that load's error), the one module there is; once a load has
\* succeeded no load is ever started again and every call gets that module;
\* and a load that fails clears the in-flight promise, so that the next call
\* starts a fresh load instead of getting the failed one.
C28_LoadOnce ==
    [][/\ Cardinality(InFlight') <= 1
       /\ (Called /\ InFlight # {}) =>
             /\ loads' = loads
             /\ calls'[Len(calls')] = Returned("promise", CHOOSE k \in InFlight : TRUE)
       /\ (\E k \in DOMAIN loads : loads[k] = "fulfilled") =>
             /\ Len(loads') = Len(loads)
             /\ InFlight' = {}
             /\ Called => /\ calls'[Len(calls')].kind = "module"
                          /\ loads[calls'[Len(calls')].load] = "fulfilled"
       /\ (\E k \in DOMAIN loads : loads[k] = "pending" /\ loads'[k] = "rejected") =>
             loadingPromise' = NoLoad
       /\ (Called /\ InFlight = {} /\ ~\E k \in DOMAIN loads : loads[k] = "fulfilled") =>
             /\ Len(loads') = Len(loads) + 1
             /\ loads'[Len(loads')] = "pending"
             /\ calls'[Len(calls')] = Returned("promise", Len(loads'))
       /\ \A i \in DOMAIN calls :
             (calls[i].got = "waiting" /\ calls'[i].got # "waiting") =>
                 /\ loads[calls[i].load] # "pending"
                 /\ calls'[i].got = "module" <=> loads[calls[i].load] = "fulfilled"
                 /\ calls'[i].got = "module" => loadedModule = calls[i].load
      ]_vars

\* C28 witness: a first load failed, a later call started a second load, a
\* further call arrived while it was in flight and got the same promise, the
\* load succeeded, and a last call got its module.
C28_Witness ==
    /\ loads = <<"rejected", "fulfilled">>
    /\ Len(calls) = 4
    /\ calls[1] = [kind |-> "promise", load |-> 1, got |-> "error"]
    /\ calls[2] = [kind |-> "promise", load |-> 2, got |-> "module"]
    /\ calls[3] = [kind |-> "promise", load |-> 2, got |-> "module"]
    /\ calls[4] = [kind |-> "module", load |-> 2, got |-> "module"]

-----------------------------------------------------------------------------
(* Changes to the results list while a computation is in flight            *)
(* (SpecResults).                                                           *)

\* The result of the task in flight is delivered in this step.
Delivery == closure.live /\ created' = created + 1

\* C29: a change made to the results list or to the ground-truth selection
\* while a computation is in flight (delete, pin, set or clear the ground
\* truth) is still in effect after the result arrives: the new list is the
\* list as it stands at delivery time (same results in the same order, each
\* pinned as it was) followed by the new result, the selection is kept, and
\* the new result's error metrics are against the ground truth selected at
\* delivery time (none if none is selected).
C29_ChangesSurviveDelivery ==
    [][Delivery =>
          /\ Len(results') = Len(results) + 1
          /\ \A i \in DOMAIN results :
                /\ objects'[results'[i]].id = objects[results[i]].id
                /\ objects'[results'[i]].isPinned = objects[results[i]].isPinned
          /\ objects'[results'[Len(results')]].id = created'
          /\ groundTruthId' = groundTruthId
          /\ objects'[results'[Len(results')]].metrics =
                IF groundTruthId \in Shown THEN groundTruthId ELSE NoResult
      ]_vars

-----------------------------------------------------------------------------
(* The undo history of graph edit mode (SpecEdit). *)

\* C30: in edit mode, after any sequence of add-edge, delete-edge, undo and
\* redo operations, 0 <= historyIndex < history.length and the current edge
\* list is history[historyIndex].edges; an edit keeps the entries up to the
\* current one, discards all redo entries and appends the new edge list as
\* the current entry; an undo leaves the history alone and steps back from an
\* entry that holds the edge list current before it, and a redo makes the
\* next entry current, so that an undo followed by a redo restores the edge
\* list that was current before the undo.
C30_HistoryConsistent ==
    [][/\ isEditMode' =>
             /\ 0 <= historyIndex'
             /\ historyIndex' < Len(history')
             /\ currentEdges' = history'[historyIndex' + 1]
       /\ (isEditMode /\ isEditMode' /\ history' # history) =>
             /\ historyIndex' = historyIndex + 1
             /\ Len(history') = historyIndex' + 1
             /\ SubSeq(history', 1, historyIndex') =
                   SubSeq(history, 1, historyIndex + 1)
       /\ (isEditMode /\ isEditMode' /\ historyIndex' = historyIndex - 1) =>
             /\ history' = history
             /\ history'[historyIndex' + 2] = currentEdges
             /\ currentEdges' = history[historyIndex]
       /\ (isEditMode /\ isEditMode' /\ historyIndex' = historyIndex + 1
             /\ history' = history) =>
             currentEdges' = history[historyIndex + 2]
      ]_vars

\* C30 witness: in edit mode, after edits and an undo, the current entry is
\* not the last, the entry after it (the one a redo restores) holds another
\* edge list, and the history holds three lists that differ.
C30_Witness ==
    /\ isEditMode
    /\ ~effectDue
    /\ Len(history) = 3
    /\ historyIndex = 1
    /\ currentEdges = history[2]
    /\ history[3] # history[2]
    /\ history[1] # history[3]

====
